---- MODULE Spec2Model ----
(***************************************************************************)
(* Chain synchronisation and ledger mirror of the Bitcoin blockchain       *)
(* explorer: the remote node, the relational mirror (blocks, transactions, *)
(* inputs, outputs), the ingestion services and the SyncService            *)
(* orchestrator, as a state machine translated from src/app.               *)
(***************************************************************************)
EXTENDS Integers, Sequences, FiniteSets, TLC

\* ---------------------------------------------------------------- bounds
MaxHeight == 2
MaxHash == 3
MaxMemTx == 1
MaxInbox == 1
MaxRowId == 3
MaxStored == 11
MaxFails == 1
MaxBalTx == 2
MaxBalOut == 2
MaxBalIn == 2
MaxValue == 2
MaxAuditHeight == 3
MaxAuditTx == 2
MaxIter == 2
MaxTotal == 50
MaxLimit == 10
MaxPage == 2
MaxSaveTx == 6
MaxCacheArg == 2
MaxCacheValue == 2
MaxTtl == 1
MaxTime == 2
MaxEntries == 2
MaxCalled == 1
MaxSets == 2
MaxSeen == 2

\* Python's None, for hashes, heights and row ids (all naturals otherwise).
None == 0 - 1

VARIABLES
    chain,        \* remote node: the active chain, heights 1..Len(chain)
    nextHash,     \* remote node: next unused block hash
    mempool,      \* remote node: txids of unconfirmed transactions
    txLinked,     \* remote node: do the transactions of getblock verbosity 2
                  \* carry blockhash/blockheight
    fkEnforced,   \* deployment: does the store enforce FOREIGN KEYs
    blocks,       \* mirror: rows of table blocks
    txs,          \* mirror: rows of table transactions
    inputs,       \* mirror: rows of table transaction_inputs
    outputs,      \* mirror: rows of table transaction_outputs
    pc,           \* where the coroutine holding the event loop stands
    is_syncing,   \* SyncService._is_syncing of the instance in scope
    sync_stats,   \* SyncService._sync_stats of the instance in scope
    run,          \* locals of the sync_latest_blocks call in progress
    full,         \* locals of the full_sync call in progress
    result,       \* outcome of the sync_latest_blocks/full_sync just finished
    last,         \* outcome of the last ingestion/reorg service call
    response,     \* HTTP response of POST /sync/start or /sync/full just sent
    inbox,        \* HTTP requests received and not yet handled
    viaMempool,   \* history: txids whose row sync_mempool created
    prevFailed,   \* history: the heights at which the last sync_latest_blocks
                  \* run that reached the node failed to fetch or store the
                  \* block or one of its transactions
    bg,           \* background.py: _running, _sync_task, the three periodic
                  \* tasks and the stop_background_tasks call
    cache,        \* app/cache.py: the entries of cache._cache
    now,          \* the clock time.time() reads
    addresses     \* mirror: rows of table addresses

vars == <<chain, nextHash, mempool, txLinked, fkEnforced, blocks, txs, inputs,
          outputs, pc, is_syncing, sync_stats, run, full, result, last,
          response, inbox, viaMempool, prevFailed, bg, cache, now, addresses>>

remoteVars == <<chain, nextHash, mempool>>
deployVars == <<txLinked, fkEnforced>>
cacheVars == <<cache, now>>
storeVars == <<blocks, txs, inputs, outputs>>
orchVars == <<is_syncing, sync_stats, run, full, result, response>>
histVars == <<viaMempool, prevFailed>>

Max(S) == CHOOSE x \in S : \A y \in S : y <= x
Min2(a, b) == IF a <= b THEN a ELSE b

\* ------------------------------------------------------------ remote node
\* The genesis block (height 0) has hash 0; block hashes are 1..MaxHash.
NetworkHeight == Len(chain)
HashAt(h) == IF h = 0 THEN 0 ELSE chain[h].hash
KnownHash(x) == \E h \in 0..NetworkHeight : HashAt(h) = x
HeightOf(x) == CHOOSE h \in 0..NetworkHeight : HashAt(h) = x

\* Every block carries its own coinbase transaction, and possibly one
\* transaction taken from the mempool. Txids 1..MaxMemTx are the broadcast
\* transactions, the coinbase of the block with hash x is MaxMemTx + 1 + x.
CoinbaseTxid(x) == MaxMemTx + 1 + x
IsCoinbase(t) == t > MaxMemTx
TxidsAt(h) == IF h = 0 THEN <<CoinbaseTxid(0)>> ELSE chain[h].tx
Holds(h, t) == \E i \in 1..Len(TxidsAt(h)) : TxidsAt(h)[i] = t
Confirmed(t) == \E h \in 0..NetworkHeight : Holds(h, t)
HeightOfTx(t) == CHOOSE h \in 0..NetworkHeight : Holds(h, t)

\* The JSON of one transaction as the node returns it; carry says whether
\* it holds blockhash/blockheight.
TxPayload(t, carry, bh, bheight) ==
    [txid |-> t,
     blockhash |-> IF carry THEN bh ELSE None,
     blockheight |-> IF carry THEN bheight ELSE None,
     has_fee |-> FALSE,
     fee |-> 0,
     has_vin |-> TRUE,
     vin |-> IF IsCoinbase(t)
             THEN <<[coinbase |-> TRUE, txid |-> None, vout |-> None]>>
             ELSE <<[coinbase |-> FALSE, txid |-> CoinbaseTxid(0), vout |-> 0]>>,
     vout |-> <<[n |-> 0, value |-> t, address |-> IF IsCoinbase(t) THEN 1 ELSE 2]>>]

\* getblock <hash> 2 for the block at height h of the active chain.
BlockPayload(h, carry) ==
    [hash |-> HashAt(h),
     height |-> h,
     previousblockhash |-> IF h = 0 THEN None ELSE HashAt(h - 1),
     nextblockhash |-> IF h < NetworkHeight THEN HashAt(h + 1) ELSE None,
     nTx |-> Len(TxidsAt(h)),
     tx |-> [i \in 1..Len(TxidsAt(h)) |-> TxPayload(TxidsAt(h)[i], carry, HashAt(h), h)]]

\* getrawtransaction <txid> true: a confirmed transaction carries the hash
\* of its block.
RawTransaction(t) ==
    IF Confirmed(t)
    THEN TxPayload(t, TRUE, HashAt(HeightOfTx(t)), HeightOfTx(t))
    ELSE TxPayload(t, FALSE, None, None)

Mine ==
    /\ NetworkHeight < MaxHeight
    /\ nextHash <= MaxHash
    /\ \E extra \in {<<>>} \cup {<<t>> : t \in mempool} :
         /\ chain' = Append(chain, [hash |-> nextHash,
                                    tx |-> <<CoinbaseTxid(nextHash)>> \o extra])
         /\ mempool' = mempool \ {extra[i] : i \in 1..Len(extra)}
    /\ nextHash' = nextHash + 1
    /\ UNCHANGED <<deployVars, bg, cacheVars, addresses, storeVars, pc, orchVars, last, inbox, histVars>>

\* The active chain is replaced from height k upwards by new blocks; the
\* transactions of the orphaned blocks return to the mempool.
Reorg ==
    \E k \in 1..NetworkHeight :
       LET n == NetworkHeight - k + 1 IN
       /\ nextHash + n - 1 <= MaxHash
       /\ chain' = [h \in 1..NetworkHeight |->
                      IF h < k THEN chain[h]
                      ELSE [hash |-> nextHash + (h - k),
                            tx |-> <<CoinbaseTxid(nextHash + (h - k))>>]]
       /\ nextHash' = nextHash + n
       /\ mempool' = mempool \cup
            {t \in 1..MaxMemTx : \E h \in k..NetworkHeight : Holds(h, t)}
       /\ UNCHANGED <<deployVars, bg, cacheVars, addresses, storeVars, pc, orchVars, last, inbox,
                      histVars>>

Broadcast ==
    \E t \in 1..MaxMemTx :
       /\ t \notin mempool
       /\ ~Confirmed(t)
       /\ mempool' = mempool \cup {t}
       /\ UNCHANGED <<chain, nextHash, deployVars, bg, cacheVars, addresses, storeVars, pc, orchVars,
                      last, inbox, histVars>>

\* ------------------------------------------------------------- the mirror
\* INTEGER PRIMARY KEY of the default (SQLite) store: largest id plus one.
NextId(rows) == IF rows = {} THEN 1 ELSE Max({r.id : r \in rows}) + 1

\* Query(...).filter(...).first(): the set of rows found, empty for None.
get_block_by_hash(bs, x) == {b \in bs : b.hash = x}
get_block_by_height(bs, h) == {b \in bs : b.height = h}
\* A lookup that gives None for an empty table.
latest_or_none(bs) ==
    IF bs = {} THEN None ELSE Max({b.height : b \in bs})

\* return latest_block.height if latest_block else 0
get_latest_block_height(bs) ==
    IF bs = {} THEN 0 ELSE Max({b.height : b \in bs})
get_transaction_by_txid(ts, t) == {r \in ts : r.txid = t}
First(rows) == CHOOSE r \in rows : TRUE

\* A blocks table whose height column is not unique.
BlockUniqueHashOnly(bs, row) == ~\E b \in bs : b.hash = row.hash

\* unique=True on blocks.hash and blocks.height: the commit of a row raises
\* IntegrityError when either value is taken.
BlockUniqueOk(bs, row) ==
    ~\E b \in bs : b.hash = row.hash \/ b.height = row.height

\* save_block_to_db without the lookup of the existing block.
save_block_blind(bs, p) ==
    LET block == [id |-> NextId(bs),
                  hash |-> p.hash,
                  height |-> p.height,
                  previous_block_hash |-> p.previousblockhash,
                  next_block_hash |-> p.nextblockhash,
                  n_tx |-> p.nTx]
    IN IF \A b \in bs : b.hash # block.hash /\ b.height # block.height
       THEN [ok |-> TRUE, id |-> block.id, blocks |-> bs \cup {block}]
       ELSE [ok |-> FALSE, id |-> None, blocks |-> bs]

\* BlockService.save_block_to_db, awaited: [ok, id, blocks].
save_block_to_db(bs, p) ==
    LET existing_block == get_block_by_hash(bs, p.hash) IN
    IF existing_block # {}
    THEN [ok |-> TRUE, id |-> First(existing_block).id, blocks |-> bs]
    ELSE LET block == [id |-> NextId(bs),
                       hash |-> p.hash,
                       height |-> p.height,
                       previous_block_hash |-> p.previousblockhash,
                       next_block_hash |-> p.nextblockhash,
                  n_tx |-> p.nTx]
         IN IF BlockUniqueOk(bs, block)
            THEN [ok |-> TRUE, id |-> block.id, blocks |-> bs \cup {block}]
            ELSE [ok |-> FALSE, id |-> None, blocks |-> bs]

\* A conversion that keeps the sign of the amount.
SignedSatoshis(amount) == amount

\* int(abs(amount) * 100000000): the amounts of a payload are the node's
\* decimals, written here as their count of 0.00000001 BTC.
AbsSatoshis(amount) == IF amount < 0 THEN 0 - amount ELSE amount

\* TransactionService._calculate_fee: the fee of the payload when it has
\* one; else 0 when the first entry of vin is a coinbase; else None, also
\* when vin is missing ([{}][0] has no coinbase) or empty ([][0] raises
\* IndexError, caught).
calculate_fee(p) ==
    IF p.has_fee THEN AbsSatoshis(p.fee)
    ELSE IF ~p.has_vin THEN None
    ELSE IF Len(p.vin) = 0 THEN None
    ELSE IF p.vin[1].coinbase THEN 0
    ELSE None

\* ForeignKey("blocks.hash") on transactions.block_hash, when enforced.
TxForeignKeyOk(fk, bs, bh) ==
    fk => (bh = None \/ \E b \in bs : b.hash = bh)

\* TransactionService.save_transaction_to_db on the store
\* st = [blocks, txs, inputs, outputs]: [ok, id, txs, inputs, outputs].
save_transaction_to_db(fk, st, p) ==
    LET existing_tx == get_transaction_by_txid(st.txs, p.txid) IN
    IF existing_tx # {}
    THEN [ok |-> TRUE, id |-> First(existing_tx).id,
          txs |-> st.txs, inputs |-> st.inputs, outputs |-> st.outputs]
    ELSE LET transaction == [id |-> NextId(st.txs),
                             txid |-> p.txid,
                             block_hash |-> p.blockhash,
                             block_height |-> p.blockheight,
                             fee |-> calculate_fee(p)]
             in0 == NextId(st.inputs)
             out0 == NextId(st.outputs)
         IN IF TxForeignKeyOk(fk, st.blocks, p.blockhash)
            THEN [ok |-> TRUE, id |-> transaction.id,
                  txs |-> st.txs \cup {transaction},
                  inputs |-> st.inputs \cup
                     {[id |-> in0 + i - 1,
                       transaction_id |-> transaction.id,
                       prev_txid |-> p.vin[i].txid,
                       vout |-> p.vin[i].vout] : i \in 1..Len(p.vin)},
                  outputs |-> st.outputs \cup
                     {[id |-> out0 + i - 1,
                       transaction_id |-> transaction.id,
                       n |-> p.vout[i].n,
                       value |-> p.vout[i].value,
                       address |-> p.vout[i].address] : i \in 1..Len(p.vout)}]
            ELSE [ok |-> FALSE, id |-> None,
                  txs |-> st.txs, inputs |-> st.inputs, outputs |-> st.outputs]

Store == [blocks |-> blocks, txs |-> txs, inputs |-> inputs, outputs |-> outputs]

\* ------------------------------------------------- records of the outcome
NoLast ==
    [op |-> "none", key |-> None, ok |-> FALSE, id |-> None, changed |-> FALSE,
     rep |-> FALSE, prev_ok |-> FALSE, prev_id |-> None, link |-> None,
     was_unlinked |-> FALSE, occupied |-> FALSE, tip_height |-> None,
     expect |-> None, common |-> None, kept |-> FALSE, partial |-> FALSE,
     has_reorg |-> FALSE, fails |-> {},
     connection |-> FALSE, attempts |-> <<>>, connects |-> <<>>,
     outcome |-> "none", events |-> <<>>, mempool_txids |-> {},
     stats_errors |-> None,
     balance |-> 0, total_received |-> 0, total_spent |-> 0, tx_count |-> 0,
     is_valid |-> FALSE, issues |-> <<>>, checked_blocks |-> 0,
     checked_transactions |-> 0,
     total |-> 0, page |-> 0, limit |-> 0, pages |-> None,
     req_page |-> 0, req_limit |-> 0,
     fault |-> "none", n_vin |-> 0, n_vout |-> 0, fee |-> None,
     cache_key |-> <<>>, prefix |-> <<>>, value |-> None, ttl |-> None]

\* The record of a finished service call: op on key gave (ok, id) and changed
\* the store or not; rep says that the call before it was the same op on the
\* same key. For save_tx, link is the blockhash of the payload and
\* was_unlinked says that the row existed with a null block_hash; for blocks,
\* occupied says that another block held the height of the payload.
Outcome(op, key, ok, id, changed) ==
    [NoLast EXCEPT !.op = op, !.key = key, !.ok = ok, !.id = id,
                   !.changed = changed,
                   !.rep = (last.op = op /\ last.key = key),
                   !.prev_ok = (last.op = op /\ last.key = key /\ last.ok),
                   !.prev_id = IF last.op = op /\ last.key = key
                               THEN last.id ELSE None]

\* ------------------------------------------------------ ingestion, called
\* A caller may call a service while it holds what its last call returned.
CanCall == pc \in {"idle", "returned"}

\* The caller drops what its last call returned.
Return ==
    /\ pc = "returned"
    /\ pc' = "idle"
    /\ last' = NoLast
    /\ UNCHANGED <<remoteVars, deployVars, bg, cacheVars, addresses, storeVars, orchVars, inbox,
                   histVars>>

Occupied(bs, h, x) == \E b \in bs : b.height = h /\ b.hash # x

\* A caller awaits BlockService.save_block_to_db on the payload of the block
\* at height h of the active chain.
IngestBlock ==
    /\ CanCall
    /\ pc' = "returned"
    /\ \E h \in 1..NetworkHeight :
         LET r == save_block_to_db(blocks, BlockPayload(h, txLinked)) IN
         /\ blocks' = r.blocks
         /\ last' = [Outcome("save_block", HashAt(h), r.ok, r.id,
                             r.blocks # blocks)
                       EXCEPT !.occupied = Occupied(blocks, h, HashAt(h))]
    /\ UNCHANGED <<remoteVars, deployVars, bg, cacheVars, addresses, txs, inputs, outputs, orchVars,
                   inbox, histVars>>

\* TransactionService.save_transaction_to_db on the payload the node gives
\* for a broadcast transaction, while the row ids stay within MaxRowId
\* (handle_reorg leaves the inputs and outputs of the rows it deletes).
IngestTransaction ==
    /\ CanCall
    /\ NextId(inputs) <= MaxRowId
    /\ NextId(outputs) <= MaxRowId
    /\ pc' = "returned"
    /\ \E t \in 1..MaxMemTx :
         /\ t \in mempool \/ Confirmed(t)
         /\ LET tx_data == RawTransaction(t)
                before == get_transaction_by_txid(txs, t)
                r == save_transaction_to_db(fkEnforced, Store, tx_data)
            IN /\ txs' = r.txs
               /\ inputs' = r.inputs
               /\ outputs' = r.outputs
               /\ last' = [Outcome("save_tx", t, r.ok, r.id,
                                   \/ r.txs # txs
                                   \/ r.inputs # inputs
                                   \/ r.outputs # outputs)
                             EXCEPT !.link = tx_data.blockhash,
                                    !.was_unlinked =
                                       before # {}
                                       /\ First(before).block_hash = None]
    /\ UNCHANGED <<remoteVars, deployVars, bg, cacheVars, addresses, blocks, orchVars, inbox, histVars>>

\* BlockService.fetch_block_from_rpc: [ok, h], h the height of the block
\* fetched; by_height says whether the argument is a height, rpc_ok whether
\* the node answers.
fetch_block_from_rpc(by_height, arg, rpc_ok) ==
    IF ~rpc_ok THEN [ok |-> FALSE, h |-> 0]
    ELSE IF by_height
         THEN IF arg > NetworkHeight THEN [ok |-> FALSE, h |-> 0]
              ELSE [ok |-> TRUE, h |-> arg]
         ELSE IF KnownHash(arg) THEN [ok |-> TRUE, h |-> HeightOf(arg)]
              ELSE [ok |-> FALSE, h |-> 0]

\* BlockService.get_or_fetch_block, awaited, by height or by hash.
GetOrFetchBlock ==
    /\ CanCall
    /\ pc' = "returned"
    /\ \E by_height \in BOOLEAN, rpc_ok \in BOOLEAN :
       \E arg \in IF by_height THEN 1..MaxHeight ELSE 1..MaxHash :
         LET block == IF by_height THEN get_block_by_height(blocks, arg)
                      ELSE get_block_by_hash(blocks, arg)
             f == fetch_block_from_rpc(by_height, arg, rpc_ok)
             r == save_block_to_db(blocks, BlockPayload(f.h, txLinked))
             op == IF by_height THEN "get_or_fetch_block(height)"
                   ELSE "get_or_fetch_block(hash)"
         IN IF block # {}
            THEN /\ blocks' = blocks
                 /\ last' = Outcome(op, arg, TRUE, First(block).id, FALSE)
            ELSE IF ~f.ok
            THEN /\ blocks' = blocks
                 /\ last' = Outcome(op, arg, FALSE, None, FALSE)
            ELSE /\ blocks' = r.blocks
                 /\ last' = [Outcome(op, arg, r.ok, r.id, r.blocks # blocks)
                               EXCEPT !.occupied =
                                         Occupied(blocks, f.h, HashAt(f.h))]
    /\ UNCHANGED <<remoteVars, deployVars, bg, cacheVars, addresses, txs, inputs, outputs, orchVars,
                   inbox, histVars>>

\* BlockService.get_or_fetch_block(0), or with the hash of the block at
\* height 0 (GET /blocks/0).
GetOrFetchGenesis ==
    /\ CanCall
    /\ pc' = "returned"
    /\ \E by_height \in BOOLEAN, rpc_ok \in BOOLEAN :
         LET arg == IF by_height THEN 0 ELSE HashAt(0)
             block == IF by_height THEN get_block_by_height(blocks, arg)
                      ELSE get_block_by_hash(blocks, arg)
             f == fetch_block_from_rpc(by_height, arg, rpc_ok)
             r == save_block_to_db(blocks, BlockPayload(f.h, txLinked))
             op == IF by_height THEN "get_or_fetch_block(height)"
                   ELSE "get_or_fetch_block(hash)"
         IN IF block # {}
            THEN /\ blocks' = blocks
                 /\ last' = Outcome(op, arg, TRUE, First(block).id, FALSE)
            ELSE IF ~f.ok
            THEN /\ blocks' = blocks
                 /\ last' = Outcome(op, arg, FALSE, None, FALSE)
            ELSE /\ blocks' = r.blocks
                 /\ last' = [Outcome(op, arg, r.ok, r.id, r.blocks # blocks)
                               EXCEPT !.occupied =
                                         Occupied(blocks, f.h, HashAt(f.h))]
    /\ UNCHANGED <<remoteVars, deployVars, bg, cacheVars, addresses, txs, inputs,
                   outputs, orchVars, inbox, histVars>>

\* ------------------------------------------------------------ sync_mempool
\* A copy that keeps the confirmation fields.
keep_confirmation(tx_data) == tx_data

\* tx_data.copy() without "blockhash" and "blockheight".
strip_confirmation(tx_data) ==
    [tx_data EXCEPT !.blockhash = None, !.blockheight = None]

RECURSIVE MempoolLoop(_, _, _)
\* The loop of sync_mempool over the payloads of get_mempool_transactions,
\* in the order of the list: the store after it.
MempoolLoop(fk, st, ps) ==
    IF ps = <<>> THEN st
    ELSE LET tx_data == Head(ps)
             existing_tx == get_transaction_by_txid(st.txs, tx_data.txid)
             tx_data_copy == strip_confirmation(tx_data)
             r == save_transaction_to_db(fk, st, tx_data_copy)
         IN IF existing_tx # {}
            THEN MempoolLoop(fk, st, Tail(ps))
            ELSE MempoolLoop(fk, [st EXCEPT !.txs = r.txs,
                                            !.inputs = r.inputs,
                                            !.outputs = r.outputs], Tail(ps))

RECURSIVE SeqOfSet(_)
SeqOfSet(S) == IF S = {} THEN <<>>
               ELSE LET m == CHOOSE x \in S : \A y \in S : x <= y
                    IN <<m>> \o SeqOfSet(S \ {m})

\* SyncService.sync_mempool, from the periodic mempool loop or POST
\* /sync/mempool, up to the answer to getrawmempool: the txids listed, or
\* the SyncServiceError when the call fails. The node may mine a block
\* before it answers the getrawtransaction calls that follow.
GetRawMempool ==
    /\ CanCall
    /\ \E rpc_ok \in BOOLEAN :
         IF rpc_ok
         THEN /\ pc' = "mempool_listed"
              /\ last' = [NoLast EXCEPT !.op = "get_raw_mempool",
                                        !.ok = TRUE,
                                        !.mempool_txids = mempool]
         ELSE /\ pc' = "returned"
              /\ last' = Outcome("sync_mempool", 0, FALSE, None, FALSE)
    /\ UNCHANGED <<remoteVars, deployVars, bg, cacheVars, addresses, storeVars, orchVars, inbox,
                   histVars>>

\* SyncService.sync_mempool from the getrawtransaction calls to its return.
\* listed are the txids whose getrawtransaction call did not fail. link is
\* the blockhash of a payload from which a row was created, if one carried
\* it.
SyncMempool ==
    /\ pc = "mempool_listed"
    /\ pc' = "returned"
    /\ \E listed \in SUBSET last.mempool_txids :
         LET ps == [i \in 1..Cardinality(listed) |->
                      RawTransaction(SeqOfSet(listed)[i])]
             st == MempoolLoop(fkEnforced, Store, ps)
             created == {t.txid : t \in st.txs \ txs}
             carried == {RawTransaction(t).blockhash : t \in created} \ {None}
         IN /\ txs' = st.txs
            /\ inputs' = st.inputs
            /\ outputs' = st.outputs
            /\ viaMempool' = viaMempool \cup created
            /\ last' = [Outcome("sync_mempool", Cardinality(listed), TRUE, None,
                                st.txs # txs)
                          EXCEPT !.link = IF carried = {} THEN None
                                          ELSE CHOOSE x \in carried : TRUE]
    /\ UNCHANGED <<remoteVars, deployVars, bg, cacheVars, addresses, blocks, orchVars, inbox, prevFailed>>

\* ------------------------------------------------------------ handle_reorg
\* sync_service.py:368 calls the coroutine function get_block_by_height
\* without awaiting it.
AwaitsBlockLookup == FALSE

RECURSIVE AncestorWalk(_, _)
\* The while loop of handle_reorg from common_height down: [raised,
\* common_height]. An unawaited lookup yields a coroutine object, which is
\* truthy and has no attribute hash: AttributeError.
AncestorWalk(bs, common_height) ==
    IF common_height > 0
    THEN LET block_hash == HashAt(common_height)
             db_block == get_block_by_height(bs, common_height)
         IN IF ~AwaitsBlockLookup
            THEN [raised |-> TRUE, common_height |-> common_height]
            ELSE IF db_block # {} /\ First(db_block).hash = block_hash
            THEN [raised |-> FALSE, common_height |-> common_height]
            ELSE AncestorWalk(bs, common_height - 1)
    ELSE [raised |-> FALSE, common_height |-> 0]

\* The common ancestor of the glossary: the highest height in 1..top at which
\* the mirror's hash is the node's, 0 if none.
CommonAncestor(bs, top) ==
    LET S == {c \in 1..top : \E b \in bs : b.height = c /\ b.hash = HashAt(c)}
    IN IF S = {} THEN 0 ELSE Max(S)

\* Query(Transaction).filter(...).delete() issues a bulk DELETE: the ORM
\* cascade to inputs and outputs does not run, and a store that enforces
\* transaction_inputs.transaction_id / transaction_outputs.transaction_id
\* refuses it.
BulkDeleteOk(fk, gone) ==
    fk => ~\E r \in inputs \cup outputs : \E t \in gone : r.transaction_id = t.id

\* The orders in which Query(Block).filter(...).all(), which has no ORDER
\* BY, may return the rows S.
Orders(S) ==
    {q \in [1..Cardinality(S) -> S] :
        \A i \in 1..Cardinality(S), j \in 1..Cardinality(S) :
           q[i] = q[j] => i = j}

RECURSIVE DeleteLoop(_, _, _)
\* The for loop of handle_reorg over orphaned_blocks in the order q: the
\* transactions of the block are deleted by a bulk DELETE, then the block;
\* [raised, st], st the store as the open database transaction sees it.
DeleteLoop(fk, st, q) ==
    IF q = <<>> THEN [raised |-> FALSE, st |-> st]
    ELSE LET block == Head(q)
             gone == {t \in st.txs : t.block_hash = block.hash}
         IN IF ~BulkDeleteOk(fk, gone)
            THEN [raised |-> TRUE, st |-> st]
            ELSE DeleteLoop(fk, [st EXCEPT !.txs = @ \ gone,
                                           !.blocks = @ \ {block}], Tail(q))

\* An except clause that keeps what the open transaction has done.
rollback_skipped(committed, open) == open

\* self.db.rollback() of the except clause: the store is what was committed
\* before the call.
rollback(committed, open) == committed

\* SyncService.handle_reorg(new_tip_hash), whole.
HandleReorg ==
    /\ CanCall
    /\ pc' = "returned"
    /\ \E new_tip_hash \in 0..MaxHash, rpc_ok \in BOOLEAN :
         LET known == rpc_ok /\ KnownHash(new_tip_hash)
             new_height == IF known THEN HeightOf(new_tip_hash) ELSE 0
             w == AncestorWalk(blocks, new_height)
             orphaned_blocks == {b \in blocks : b.height > w.common_height}
             gone == {t \in txs : \E b \in orphaned_blocks : t.block_hash = b.hash}
             expect == CommonAncestor(blocks, new_height)
         IN \E q \in Orders(orphaned_blocks) :
            LET d == IF known /\ ~w.raised
                     THEN DeleteLoop(fkEnforced, Store, q)
                     ELSE [raised |-> TRUE, st |-> Store]
                done == ~d.raised
                st == IF done THEN d.st ELSE rollback(Store, d.st)
            IN
            /\ blocks' = st.blocks
            /\ txs' = st.txs
            /\ last' = [Outcome("handle_reorg", new_tip_hash, done, None,
                                done /\ (orphaned_blocks # {} \/ gone # {}))
                          EXCEPT !.partial = d.raised /\ d.st # Store,
                                 !.tip_height = IF known THEN new_height ELSE None,
                                 !.expect = IF known THEN expect ELSE None,
                                 !.common = IF done THEN w.common_height ELSE None,
                                 !.kept =
                                    /\ \A b \in blocks : b.height <= expect
                                                            => b \in blocks'
                                    /\ \A t \in txs :
                                         (\E b \in blocks : /\ b.height <= expect
                                                            /\ t.block_hash = b.hash)
                                         => t \in txs']
    /\ UNCHANGED <<remoteVars, deployVars, bg, cacheVars, addresses, inputs, outputs, orchVars, inbox,
                   histVars>>

\* ------------------------------------------------------- BitcoinRPCClient
max_retries == 3

\* What one attempt getattr(self._connection, method)(*args) can give: the
\* result, a transport-level failure (any exception that is not a
\* JSONRPCException), or the node's rejection (JSONRPCException).
AttemptOutcomes == {"result", "transport", "protocol"}

\* The scripts of one call: what each attempt and each _connect would give.
\* AuthServiceProxy(...) itself does not fail (it succeeded with the same
\* settings when the module was imported), so a failed _connect has replaced
\* self._connection and failed in its getblockchaininfo probe.
RpcScripts ==
    [attempts : [1..max_retries -> AttemptOutcomes],
     connects : [1..max_retries + 1 -> BOOLEAN]]

\* An except clause for JSONRPCException that catches nothing.
NoProtocolClause(o) == FALSE

\* except JSONRPCException
IsProtocolError(o) == o = "protocol"

\* A retry test that always allows a reconnect.
AlwaysRetry(retry_count) == TRUE

\* if retry_count < max_retries, in the except clause
MayRetry(retry_count) == retry_count < max_retries

RECURSIVE RpcLoop(_, _)
RECURSIVE RpcExcept(_, _)
\* The while loop of _execute_rpc_call from its test, in the state
\* st = [retry_count, connection, calls, connects, events]: what the call
\* ends with ("result", "BitcoinRPCError", or "none" when the loop is left
\* and the method returns nothing) and the events up to there.
RpcLoop(st, script) ==
    IF ~(st.retry_count < max_retries)
    THEN [outcome |-> "none", events |-> st.events]
    ELSE LET connect_ok == script.connects[st.connects + 1]
             st1 == IF st.connection THEN st
                    ELSE [st EXCEPT
                            !.connection = TRUE,
                            !.connects = @ + 1,
                            !.events = Append(@, IF connect_ok THEN "connect:ok"
                                                 ELSE "connect:failed")]
         IN IF ~st.connection /\ ~connect_ok
            THEN RpcExcept(st1, script)
            ELSE LET o == script.attempts[st1.calls + 1]
                     st2 == [st1 EXCEPT !.calls = @ + 1,
                                        !.events = Append(@, o)]
                 IN IF o = "result"
                    THEN [outcome |-> "result", events |-> st2.events]
                    ELSE IF IsProtocolError(o)
                    THEN [outcome |-> "BitcoinRPCError", events |-> st2.events]
                    ELSE RpcExcept(st2, script)

\* except Exception: of _execute_rpc_call.
RpcExcept(st, script) ==
    LET retry_count == st.retry_count + 1 IN
    IF MayRetry(retry_count)
    THEN LET reconnect_ok == script.connects[st.connects + 1]
             st1 == [st EXCEPT
                       !.retry_count = retry_count,
                       !.connection = TRUE,
                       !.connects = @ + 1,
                       !.events = Append(@, IF reconnect_ok THEN "reconnect:ok"
                                            ELSE "reconnect:failed")]
         IN IF ~reconnect_ok /\ retry_count = max_retries - 1
            THEN [outcome |-> "BitcoinRPCError", events |-> st1.events]
            ELSE RpcLoop(st1, script)
    ELSE [outcome |-> "BitcoinRPCError", events |-> st.events]

\* BitcoinRPCClient._execute_rpc_call on a client whose _connection is set
\* (connection) or was dropped by close().
execute_rpc_call(connection, script) ==
    RpcLoop([retry_count |-> 0, connection |-> connection, calls |-> 0,
             connects |-> 0, events |-> <<>>], script)

\* A caller makes one RPC call through the client.
ExecuteRpcCall ==
    /\ pc = "idle"
    /\ pc' = "returned"
    /\ \E connection \in BOOLEAN, script \in RpcScripts :
         LET r == execute_rpc_call(connection, script) IN
         last' = [Outcome("execute_rpc_call", None, r.outcome = "result", None,
                          FALSE)
                    EXCEPT !.connection = connection,
                           !.attempts = script.attempts,
                           !.connects = script.connects,
                           !.outcome = r.outcome,
                           !.events = r.events]
    /\ UNCHANGED <<remoteVars, deployVars, bg, cacheVars, addresses, storeVars, orchVars, inbox,
                   histVars>>

\* ---------------------------------------------------------- check_for_reorg
RecentLimit == 10

\* A query that returns every block of the mirror.
RecentBlocksAll(bs, limit) ==
    [i \in 1..Cardinality(bs) |->
       CHOOSE b \in bs : Cardinality({c \in bs : c.height > b.height}) = i - 1]

RECURSIVE RecentBlocks(_, _)
\* Query(Block).order_by(Block.height.desc()).limit(10).all(): the sequence
\* of the rows, highest first.
RecentBlocks(bs, limit) ==
    IF bs = {} \/ limit = 0 THEN <<>>
    ELSE LET top == CHOOSE b \in bs : \A c \in bs : c.height <= b.height
         IN <<top>> \o RecentBlocks(bs \ {top}, limit - 1)

\* The sets of heights for which a getblockhash call may fail while the node
\* is reachable for the others.
FailSets(bs) ==
    {F \in SUBSET {b.height : b \in bs} : Cardinality(F) <= MaxFails}

RECURSIVE ReorgLoop(_, _)
\* The for loop of check_for_reorg over recent_blocks: get_block_hash raises
\* BitcoinRPCError for the heights in fails and for a height the active
\* chain does not have, and the block is skipped.
ReorgLoop(recent_blocks, fails) ==
    IF recent_blocks = <<>> THEN FALSE
    ELSE LET block == Head(recent_blocks)
         IN IF block.height \in fails \/ block.height > NetworkHeight
            THEN ReorgLoop(Tail(recent_blocks), fails)
            ELSE IF HashAt(block.height) # block.hash
            THEN TRUE
            ELSE ReorgLoop(Tail(recent_blocks), fails)

\* SyncService.check_for_reorg, the value it returns.
check_for_reorg(bs, fails) ==
    LET recent_blocks == RecentBlocks(bs, RecentLimit)
    IN IF recent_blocks = <<>> THEN FALSE
       ELSE ReorgLoop(recent_blocks, fails)

\* POST /sync/check-reorg: check_for_reorg called on its own.
CheckForReorg ==
    /\ pc = "idle"
    /\ pc' = "returned"
    /\ \E fails \in FailSets(blocks) :
         last' = [Outcome("check_for_reorg", None, TRUE, None, FALSE)
                    EXCEPT !.has_reorg = check_for_reorg(blocks, fails),
                           !.fails = fails]
    /\ UNCHANGED <<remoteVars, deployVars, bg, cacheVars, addresses, storeVars, orchVars, inbox,
                   histVars>>

\* ------------------------------------------------------------ SyncService
PeriodicMaxBlocks == 100

ZeroStats == [blocks_synced |-> 0, transactions_synced |-> 0, errors |-> 0]

\* SyncService.__init__: every handler and every iteration of a periodic
\* loop builds its own instance.
SyncService_init == [is_syncing |-> FALSE, sync_stats |-> ZeroStats]

NoRun ==
    [caller |-> "none", max_blocks |-> 0, network_height |-> 0,
     start_height |-> 0, end_height |-> 0, height |-> 0, synced_blocks |-> 0,
     synced_transactions |-> 0, errors |-> 0, failed |-> {}, txfail |-> 0,
     db_height |-> 0, mirror_before |-> {}, attempted |-> {},
     has_reorg |-> FALSE, retry |-> {}]

NoFull ==
    [batch_size |-> 0, network_height |-> 0, db_height |-> 0,
     start_height |-> 0, end_height |-> 0, total_synced_blocks |-> 0,
     total_synced_transactions |-> 0, total_errors |-> 0]

\* What a finished call gave its caller. op: "sync_latest" or "full_sync";
\* node_ok: no call to the node failed. status: "ok" (the counts), "noop"
\* (already synchronised), "error" (SyncServiceError from the try block),
\* "rejected" (SyncServiceError of the guard). acquired: the call set the
\* guard; rpc: it called the node; present: the heights in the mirror and
\* flag_after: the guard, when it ended. mirror_before: the heights in the
\* mirror when it started; attempted: the heights its for loop fetched;
\* prev_failed: the heights at which the run before it failed to fetch or
\* store the block or one of its transactions.
NoResult ==
    [op |-> "none", caller |-> "none", status |-> "none", acquired |-> FALSE,
     rpc |-> FALSE, network_height |-> 0, db_height |-> 0, start_height |-> 0,
     end_height |-> 0, synced_blocks |-> 0, synced_transactions |-> 0,
     errors |-> 0, failed |-> {}, txfail |-> 0, node_ok |-> TRUE,
     present |-> {}, flag_after |-> FALSE, max_blocks |-> 0,
     mirror_before |-> {}, attempted |-> {}, prev_failed |-> {}]

NoResponse == [kind |-> "none", during |-> FALSE, code |-> 0]

\* Where control goes when sync_latest_blocks ends: back into full_sync, or
\* to the end of the task (db.close() and the sleep of the periodic loop, the
\* end of the background task of POST /sync/start).
ReturnPc(caller) == IF caller = "full" THEN "full_ret" ELSE "task_done"

\* The task ends: its SyncService instance, the result and the response are
\* dropped. is_syncing keeps the value the instance had when it was dropped.
TaskDone ==
    /\ pc = "task_done"
    /\ pc' = "idle"
    /\ sync_stats' = ZeroStats
    /\ result' = NoResult
    /\ response' = NoResponse
    /\ last' = NoLast
    /\ UNCHANGED <<remoteVars, deployVars, bg, cacheVars, addresses, storeVars, is_syncing, run, full,
                   inbox, histVars>>

\* A guard that lets every call through.
GuardOpen(flag) == FALSE

\* if self._is_syncing: raise SyncServiceError
GuardRejects(flag) == flag

\* An exit that leaves the guard as it is.
finally_skipped(flag) == flag

\* finally: self._is_syncing = False, of sync_latest_blocks and of full_sync.
sync_finally(flag) == FALSE
full_finally(flag) == FALSE

\* A range that is not cut at the height of the network.
EndHeightUnclamped(start_height, max_blocks, network_height) ==
    start_height + max_blocks - 1

\* end_height = min(start_height + max_blocks - 1, network_height)
EndHeight(start_height, max_blocks, network_height) ==
    Min2(start_height + max_blocks - 1, network_height)

\* sync_service.py:138 calls the coroutine function save_block_to_db without
\* awaiting it: the coroutine object is dropped and its body never runs.
AwaitsSaveBlock == FALSE

\* periodic_sync_task, one iteration up to the call of sync_latest_blocks.
\* What check_for_reorg returns is logged and has no other use.
PeriodicSync ==
    /\ pc = "idle"
    /\ \E fails \in FailSets(blocks) :
       LET sync_service == SyncService_init
           has_reorg == check_for_reorg(blocks, fails)
       IN
       /\ is_syncing' = sync_service.is_syncing
       /\ sync_stats' = sync_service.sync_stats
       /\ IF ~sync_service.is_syncing
          THEN /\ pc' = "call_sync"
               /\ run' = [NoRun EXCEPT !.caller = "periodic",
                                       !.max_blocks = PeriodicMaxBlocks,
                                       !.has_reorg = has_reorg]
          ELSE UNCHANGED <<pc, run>>
    /\ UNCHANGED <<remoteVars, deployVars, bg, cacheVars, addresses, storeVars, full, result, last,
                   response, inbox, histVars>>

\* A client sends POST /sync/start or POST /sync/full; during: a run holds
\* the guard at that moment.
Arrive ==
    /\ Len(inbox) < MaxInbox
    /\ \E kind \in {"start", "full"} :
         inbox' = Append(inbox, [kind |-> kind, during |-> is_syncing])
    /\ UNCHANGED <<remoteVars, deployVars, bg, cacheVars, addresses, storeVars, pc, orchVars, last,
                   histVars>>

\* POST /sync/start: the handler, then its background task up to the call.
HandleStart ==
    /\ pc = "idle"
    /\ inbox # <<>>
    /\ Head(inbox).kind = "start"
    /\ inbox' = Tail(inbox)
    /\ \E max_blocks \in 1..MaxHeight :
       LET sync_service == SyncService_init IN
       /\ is_syncing' = sync_service.is_syncing
       /\ sync_stats' = sync_service.sync_stats
       /\ IF sync_service.is_syncing
          THEN /\ response' = [kind |-> "start", during |-> Head(inbox).during,
                               code |-> 409]
               /\ pc' = "task_done"
               /\ UNCHANGED run
          ELSE /\ response' = [kind |-> "start", during |-> Head(inbox).during,
                               code |-> 200]
               /\ pc' = "call_sync"
               /\ run' = [NoRun EXCEPT !.caller = "start",
                                       !.max_blocks = max_blocks]
    /\ UNCHANGED <<remoteVars, deployVars, bg, cacheVars, addresses, storeVars, full, result, last,
                   histVars>>

\* POST /sync/full: the handler, then its background task up to the call.
HandleFull ==
    /\ pc = "idle"
    /\ inbox # <<>>
    /\ Head(inbox).kind = "full"
    /\ inbox' = Tail(inbox)
    /\ \E batch_size \in 1..MaxHeight :
       LET sync_service == SyncService_init IN
       /\ is_syncing' = sync_service.is_syncing
       /\ sync_stats' = sync_service.sync_stats
       /\ IF sync_service.is_syncing
          THEN /\ response' = [kind |-> "full", during |-> Head(inbox).during,
                               code |-> 409]
               /\ pc' = "task_done"
               /\ UNCHANGED full
          ELSE /\ response' = [kind |-> "full", during |-> Head(inbox).during,
                               code |-> 200]
               /\ pc' = "call_full"
               /\ full' = [NoFull EXCEPT !.batch_size = batch_size]
    /\ UNCHANGED <<remoteVars, deployVars, bg, cacheVars, addresses, storeVars, run, result, last,
                   histVars>>

\* sync_latest_blocks from its first line to the for loop.
SyncLatestEntry ==
    /\ pc = "call_sync"
    /\ IF GuardRejects(is_syncing)
       THEN /\ result' = [NoResult EXCEPT !.op = "sync_latest",
                                          !.caller = run.caller,
                                          !.status = "rejected",
                                          !.present = {b.height : b \in blocks},
                                          !.flag_after = is_syncing]
            /\ pc' = ReturnPc(run.caller)
            /\ run' = NoRun
            /\ UNCHANGED <<is_syncing, sync_stats, prevFailed>>
       ELSE \E rpc_ok \in BOOLEAN :
            LET network_height == NetworkHeight
                db_height == get_latest_block_height(blocks)
                start_height == db_height + 1
                end_height == EndHeight(start_height, run.max_blocks,
                                        network_height)
                ended == [NoResult EXCEPT !.op = "sync_latest",
                                          !.caller = run.caller,
                                          !.acquired = TRUE,
                                          !.rpc = TRUE,
                                          !.max_blocks = run.max_blocks,
                                          !.mirror_before =
                                             {b.height : b \in blocks},
                                          !.prev_failed = prevFailed,
                                          !.present = {b.height : b \in blocks},
                                          !.flag_after = sync_finally(TRUE)]
            IN IF ~rpc_ok
               THEN /\ result' = [ended EXCEPT !.status = "error",
                                               !.node_ok = FALSE]
                    /\ is_syncing' = sync_finally(TRUE)
                    /\ pc' = ReturnPc(run.caller)
                    /\ run' = NoRun
                    /\ UNCHANGED <<sync_stats, prevFailed>>
               ELSE IF start_height > network_height
               THEN /\ result' = [ended EXCEPT !.status = "noop",
                                               !.network_height = network_height,
                                               !.db_height = db_height]
                    /\ is_syncing' = sync_finally(TRUE)
                    /\ pc' = ReturnPc(run.caller)
                    /\ run' = NoRun
                    /\ prevFailed' = {}
                    /\ UNCHANGED sync_stats
               ELSE /\ is_syncing' = TRUE
                    /\ pc' = "sync_loop"
                    /\ run' = [run EXCEPT !.network_height = network_height,
                                          !.db_height = db_height,
                                          !.mirror_before =
                                             {b.height : b \in blocks},
                                          !.start_height = start_height,
                                          !.end_height = end_height,
                                          !.height = start_height]
                    /\ UNCHANGED <<sync_stats, result, prevFailed>>
    /\ UNCHANGED <<remoteVars, deployVars, bg, cacheVars, addresses, storeVars, full, last, response,
                   inbox, viaMempool>>

RECURSIVE TxLoop(_, _, _)
\* The loop of sync_latest_blocks over block_data["tx"]: the store after it,
\* the transactions saved, those that raised, and the last call made.
TxLoop(fk, st, ps) ==
    IF ps = <<>>
    THEN [st |-> st, synced |-> 0, errors |-> 0, called |-> FALSE,
          txid |-> None, ok |-> FALSE, id |-> None, changed |-> FALSE,
          link |-> None, was_unlinked |-> FALSE]
    ELSE LET tx_data == Head(ps)
             before == get_transaction_by_txid(st.txs, tx_data.txid)
             r == save_transaction_to_db(fk, st, tx_data)
             st1 == [st EXCEPT !.txs = r.txs, !.inputs = r.inputs,
                               !.outputs = r.outputs]
             rest == TxLoop(fk, st1, Tail(ps))
         IN [rest EXCEPT !.synced = @ + (IF r.ok THEN 1 ELSE 0),
                         !.errors = @ + (IF r.ok THEN 0 ELSE 1),
                         !.called = TRUE,
                         !.txid = IF rest.called THEN @ ELSE tx_data.txid,
                         !.ok = IF rest.called THEN @ ELSE r.ok,
                         !.id = IF rest.called THEN @ ELSE r.id,
                         !.changed = IF rest.called THEN @ ELSE st1 # st,
                         !.link = IF rest.called THEN @ ELSE tx_data.blockhash,
                         !.was_unlinked =
                            IF rest.called THEN @
                            ELSE before # {} /\ First(before).block_hash = None]

\* One pass of the for loop of sync_latest_blocks, and after the last one
\* the statistics, the return and the finally clause. last records the call
\* of save_transaction_to_db for the last transaction of the block.
SyncBlock ==
    /\ pc = "sync_loop"
    /\ \E fetch_ok \in BOOLEAN :
       LET height == run.height
           f == fetch_block_from_rpc(TRUE, height, fetch_ok)
           block_data == BlockPayload(height, txLinked)
           saved == IF AwaitsSaveBlock THEN save_block_to_db(blocks, block_data)
                    ELSE [ok |-> TRUE, id |-> None, blocks |-> blocks]
           t == TxLoop(fkEnforced, [Store EXCEPT !.blocks = saved.blocks],
                       block_data.tx)
           run1 == IF ~f.ok \/ ~saved.ok
                   THEN [run EXCEPT !.errors = @ + 1,
                                    !.failed = @ \cup {height},
                                    !.attempted = @ \cup {height},
                                    !.retry = @ \cup {height},
                                    !.height = @ + 1]
                   ELSE [run EXCEPT !.synced_blocks = @ + 1,
                                    !.attempted = @ \cup {height},
                                    !.retry = IF t.errors > 0
                                              THEN @ \cup {height} ELSE @,
                                    !.synced_transactions = @ + t.synced,
                                    !.errors = @ + t.errors,
                                    !.txfail = @ + t.errors,
                                    !.height = @ + 1]
       IN /\ IF f.ok
             THEN /\ blocks' = saved.blocks
                  /\ IF saved.ok
                     THEN /\ txs' = t.st.txs
                          /\ inputs' = t.st.inputs
                          /\ outputs' = t.st.outputs
                          /\ last' = [Outcome("save_tx", t.txid, t.ok, t.id,
                                              t.changed)
                                        EXCEPT !.link = t.link,
                                               !.was_unlinked = t.was_unlinked]
                     ELSE UNCHANGED <<txs, inputs, outputs, last>>
             ELSE UNCHANGED <<storeVars, last>>
          /\ IF run1.height <= run.end_height
             THEN /\ run' = run1
                  /\ UNCHANGED <<pc, is_syncing, sync_stats, result, prevFailed>>
             ELSE /\ sync_stats' =
                       [blocks_synced |-> sync_stats.blocks_synced
                                           + run1.synced_blocks,
                        transactions_synced |-> sync_stats.transactions_synced
                                                 + run1.synced_transactions,
                        errors |-> sync_stats.errors + run1.errors]
                  /\ result' = [NoResult EXCEPT
                                  !.op = "sync_latest",
                                  !.caller = run.caller,
                                  !.status = "ok",
                                  !.acquired = TRUE,
                                  !.rpc = TRUE,
                                  !.network_height = run.network_height,
                                  !.db_height = run.db_height,
                                  !.max_blocks = run.max_blocks,
                                  !.mirror_before = run.mirror_before,
                                  !.attempted = run1.attempted,
                                  !.prev_failed = prevFailed,
                                  !.start_height = run.start_height,
                                  !.end_height = run.end_height,
                                  !.synced_blocks = run1.synced_blocks,
                                  !.synced_transactions = run1.synced_transactions,
                                  !.errors = run1.errors,
                                  !.failed = run1.failed,
                                  !.txfail = run1.txfail,
                                  !.node_ok = (run1.failed = {}),
                                  !.present = {b.height : b \in blocks'},
                                  !.flag_after = sync_finally(is_syncing)]
                  /\ is_syncing' = sync_finally(is_syncing)
                  /\ pc' = ReturnPc(run.caller)
                  /\ run' = NoRun
                  /\ prevFailed' = run1.retry
    /\ UNCHANGED <<remoteVars, deployVars, bg, cacheVars, addresses, full, response, inbox, viaMempool>>

\* full_sync from its first line to the while loop.
FullSyncEntry ==
    /\ pc = "call_full"
    /\ IF GuardRejects(is_syncing)
       THEN /\ result' = [NoResult EXCEPT !.op = "full_sync",
                                          !.status = "rejected",
                                          !.present = {b.height : b \in blocks},
                                          !.flag_after = is_syncing]
            /\ pc' = "task_done"
            /\ full' = NoFull
            /\ UNCHANGED is_syncing
       ELSE \E rpc_ok \in BOOLEAN :
            LET network_height == NetworkHeight
                db_height == get_latest_block_height(blocks)
                ended == [NoResult EXCEPT !.op = "full_sync",
                                          !.acquired = TRUE,
                                          !.rpc = TRUE,
                                          !.present = {b.height : b \in blocks},
                                          !.flag_after = full_finally(TRUE)]
            IN IF ~rpc_ok
               THEN /\ result' = [ended EXCEPT !.status = "error",
                                               !.node_ok = FALSE]
                    /\ is_syncing' = full_finally(TRUE)
                    /\ pc' = "task_done"
                    /\ full' = NoFull
               ELSE IF db_height >= network_height
               THEN /\ result' = [ended EXCEPT !.status = "noop",
                                               !.network_height = network_height,
                                               !.db_height = db_height]
                    /\ is_syncing' = full_finally(TRUE)
                    /\ pc' = "task_done"
                    /\ full' = NoFull
               ELSE /\ is_syncing' = TRUE
                    /\ pc' = "full_loop"
                    /\ full' = [full EXCEPT !.network_height = network_height,
                                            !.db_height = db_height,
                                            !.start_height = db_height + 1]
                    /\ UNCHANGED result
    /\ UNCHANGED <<remoteVars, deployVars, bg, cacheVars, addresses, storeVars, sync_stats, run, last,
                   response, inbox, histVars>>

\* The test of the while loop of full_sync: the call of sync_latest_blocks
\* for the next batch, or the return after the last one.
FullBatch ==
    /\ pc = "full_loop"
    /\ IF full.start_height <= full.network_height
       THEN LET end_height == Min2(full.start_height + full.batch_size - 1,
                                   full.network_height)
            IN /\ full' = [full EXCEPT !.end_height = end_height]
               /\ run' = [NoRun EXCEPT !.caller = "full",
                                       !.max_blocks = end_height
                                                       - full.start_height + 1]
               /\ pc' = "call_sync"
               /\ UNCHANGED <<is_syncing, result>>
       ELSE /\ result' = [NoResult EXCEPT
                            !.op = "full_sync",
                            !.status = "ok",
                            !.acquired = TRUE,
                            !.rpc = TRUE,
                            !.network_height = full.network_height,
                            !.db_height = full.db_height,
                            !.synced_blocks = full.total_synced_blocks,
                            !.synced_transactions = full.total_synced_transactions,
                            !.errors = full.total_errors,
                            !.node_ok = (full.total_errors = 0),
                            !.present = {b.height : b \in blocks},
                            !.flag_after = full_finally(is_syncing)]
            /\ is_syncing' = full_finally(is_syncing)
            /\ pc' = "task_done"
            /\ full' = NoFull
            /\ UNCHANGED run
    /\ UNCHANGED <<remoteVars, deployVars, bg, cacheVars, addresses, storeVars, sync_stats, last, response,
                   inbox, histVars>>

\* full_sync after the awaited sync_latest_blocks: its result is added to
\* the totals, or its exception ends full_sync through except and finally.
FullReturn ==
    /\ pc = "full_ret"
    /\ IF result.status \in {"ok", "noop"}
       THEN /\ full' = [full EXCEPT
                          !.total_synced_blocks = @ + result.synced_blocks,
                          !.total_synced_transactions =
                              @ + result.synced_transactions,
                          !.total_errors = @ + result.errors,
                          !.start_height = full.end_height + 1]
            /\ pc' = "full_loop"
            /\ UNCHANGED <<is_syncing, result>>
       ELSE /\ result' = [NoResult EXCEPT
                            !.op = "full_sync",
                            !.status = "error",
                            !.acquired = TRUE,
                            !.rpc = TRUE,
                            !.network_height = full.network_height,
                            !.db_height = full.db_height,
                            !.synced_blocks = full.total_synced_blocks,
                            !.synced_transactions = full.total_synced_transactions,
                            !.errors = full.total_errors,
                            !.node_ok = result.node_ok /\ full.total_errors = 0,
                            !.present = {b.height : b \in blocks},
                            !.flag_after = full_finally(is_syncing)]
            /\ is_syncing' = full_finally(is_syncing)
            /\ pc' = "task_done"
            /\ full' = NoFull
    /\ UNCHANGED <<remoteVars, deployVars, bg, cacheVars, addresses, storeVars, sync_stats, run, last,
                   response, inbox, histVars>>

\* SyncService.get_sync_status as far as the statistics go: stats is the
\* _sync_stats of the instance it is called on.
get_sync_status(sync_service) == sync_service.sync_stats

\* GET /sync/status and GET /sync/stats, handled once the task of a sync run
\* has returned: each handler builds its own SyncService and returns the
\* statistics of that instance; /sync/status also asks the node and answers
\* 500 when the node call raises.
GetSyncStats ==
    /\ pc = "task_done"
    /\ result.op = "sync_latest"
    /\ last.op \notin {"get_sync_status", "get_sync_stats"}
    /\ \E route \in {"get_sync_status", "get_sync_stats"}, rpc_ok \in BOOLEAN :
       LET sync_service == SyncService_init
           stats == IF route = "get_sync_status"
                    THEN get_sync_status(sync_service)
                    ELSE sync_service.sync_stats
           ok == route = "get_sync_stats" \/ rpc_ok
       IN last' = [NoLast EXCEPT !.op = route,
                                 !.ok = ok,
                                 !.stats_errors = IF ok THEN stats.errors
                                                  ELSE None]
    /\ UNCHANGED <<remoteVars, deployVars, bg, cacheVars, addresses, storeVars, pc, orchVars, inbox,
                   histVars>>

\* ------------------------------------------------------- address balance
RECURSIVE SumValues(_)
\* sum(output.value for output in rows)
SumValues(rows) ==
    IF rows = {} THEN 0
    ELSE LET o == CHOOSE x \in rows : TRUE
         IN o.value + SumValues(rows \ {o})

\* output.transaction: the transaction row the output's transaction_id names.
OwnerOf(ts, o) == {r \in ts : r.id = o.transaction_id}

\* An input lookup that finds nothing.
NeverReferenced(ins, txid, n) == FALSE

\* The query for spent_input has a first row.
Referenced(ins, txid, n) ==
    \E i \in ins : i.prev_txid = txid /\ i.vout = n

\* A balance taken the wrong way round.
BalanceReversed(total_received, total_spent) == total_spent - total_received

\* balance = total_received - total_spent
Balance(total_received, total_spent) == total_received - total_spent

\* TransactionService.get_address_balance on the store st: ok is false when
\* it raises TransactionServiceError, which it does when an output of the
\* address has no transaction row (output.transaction is None).
get_address_balance(st, address) ==
    LET outs == {o \in st.outputs : o.address = address}
        txid_of(o) == First(OwnerOf(st.txs, o)).txid
    IN IF \E o \in outs : OwnerOf(st.txs, o) = {}
       THEN [ok |-> FALSE, balance |-> 0, total_received |-> 0,
             total_spent |-> 0, tx_count |-> 0]
       ELSE LET spent_outputs ==
                   {<<txid_of(o), o.n>> : o \in
                      {x \in outs : Referenced(st.inputs, txid_of(x), x.n)}}
                total_received == SumValues(outs)
                total_spent ==
                   SumValues({o \in outs :
                                <<txid_of(o), o.n>> \in spent_outputs})
            IN [ok |-> TRUE,
                balance |-> Balance(total_received, total_spent),
                total_received |-> total_received,
                total_spent |-> total_spent,
                tx_count |-> Cardinality({txid_of(o) : o \in outs})]

\* The addresses of the stored outputs, and one that has none.
BalAddresses == 1..2

\* A caller asks for the balance of an address.
GetAddressBalance ==
    /\ pc = "idle"
    /\ \E address \in BalAddresses :
       LET r == get_address_balance(Store, address)
       IN last' = [NoLast EXCEPT !.op = "get_address_balance",
                                 !.key = address,
                                 !.ok = r.ok,
                                 !.balance = r.balance,
                                 !.total_received = r.total_received,
                                 !.total_spent = r.total_spent,
                                 !.tx_count = r.tx_count]
    /\ pc' = "returned"
    /\ UNCHANGED <<remoteVars, deployVars, bg, cacheVars, addresses, storeVars, orchVars, inbox,
                   histVars>>

\* ---------------------------------------------------- integrity validation
RECURSIVE BlocksByHeight(_)
\* Query(Block).order_by(Block.height).all(): the rows, lowest first.
BlocksByHeight(bs) ==
    IF bs = {} THEN <<>>
    ELSE LET low == CHOOSE b \in bs : \A c \in bs : b.height <= c.height
         IN <<low>> \o BlocksByHeight(bs \ {low})

\* Python's truth value of a nullable column: a hash, a count.
TruthyHash(x) == x # None
TruthyCount(n) == n # None /\ n # 0

\* A validation that does not look for transactions without a block.
OrphanedNone(st) == 0

\* The transactions whose block_hash is not null and names no stored block.
OrphanedTransactions(st) ==
    Cardinality({t \in st.txs :
                   /\ t.block_hash # None
                   /\ t.block_hash \notin {b.hash : b \in st.blocks}})

\* The issues the loop of validate_database_integrity appends for blocks[i].
BlockIssues(st, bseq, i) ==
    LET block == bseq[i]
        tx_count == Cardinality({t \in st.txs : t.block_hash = block.hash})
    IN (IF i > 1 /\ block.height # bseq[i - 1].height + 1
        THEN <<[kind |-> "height", at |-> bseq[i - 1].height + 1]>>
        ELSE <<>>)
       \o
       (IF /\ i > 1
           /\ TruthyHash(block.previous_block_hash)
           /\ block.previous_block_hash # bseq[i - 1].hash
        THEN <<[kind |-> "previous_block_hash", at |-> block.height]>>
        ELSE <<>>)
       \o
       (IF TruthyCount(block.n_tx) /\ tx_count # block.n_tx
        THEN <<[kind |-> "n_tx", at |-> block.height]>>
        ELSE <<>>)

RECURSIVE LoopIssues(_, _, _)
\* The issues after the passes i..len(blocks) of the loop.
LoopIssues(st, bseq, i) ==
    IF i > Len(bseq) THEN <<>>
    ELSE BlockIssues(st, bseq, i) \o LoopIssues(st, bseq, i + 1)

\* SyncService.validate_database_integrity on the store st.
validate_database_integrity(st) ==
    LET bseq == BlocksByHeight(st.blocks)
        orphaned_transactions == OrphanedTransactions(st)
        issues == LoopIssues(st, bseq, 1)
                  \o (IF orphaned_transactions > 0
                      THEN <<[kind |-> "orphaned", at |-> orphaned_transactions]>>
                      ELSE <<>>)
    IN [is_valid |-> Len(issues) = 0,
        checked_blocks |-> Len(bseq),
        checked_transactions |-> Cardinality(st.txs),
        issues |-> issues]

\* A session in which the validation deletes the transactions it found
\* without a block.
SessionPurged(st) ==
    [st EXCEPT !.txs = {t \in st.txs :
                          \/ t.block_hash = None
                          \/ t.block_hash \in {b.hash : b \in st.blocks}}]

\* What the session of a read-only call holds when the call returns: the
\* store as it was.
SessionReadOnly(st) == st

\* GET /sync/validate, and the validation of the periodic task.
ValidateDatabaseIntegrity ==
    /\ pc = "idle"
    /\ pc' = "returned"
    /\ LET r == validate_database_integrity(Store)
           after == SessionReadOnly(Store)
       IN /\ last' = [NoLast EXCEPT !.op = "validate_database_integrity",
                                    !.ok = TRUE,
                                    !.is_valid = r.is_valid,
                                    !.issues = r.issues,
                                    !.checked_blocks = r.checked_blocks,
                                    !.checked_transactions =
                                       r.checked_transactions]
          /\ blocks' = after.blocks
          /\ txs' = after.txs
          /\ inputs' = after.inputs
          /\ outputs' = after.outputs
    /\ UNCHANGED <<remoteVars, deployVars, bg, cacheVars, addresses, orchVars, inbox, histVars>>

\* -------------------------------------------------------- background tasks
\* The periodic tasks start_background_tasks creates.
Loops == {"sync", "mempool", "validation"}

\* background.py as imported: _sync_task = None, _running = False. task is
\* where each periodic task stands ("none": not created, "created": not yet
\* run, "sleeping": in asyncio.sleep(interval), "in_session": suspended
\* between SessionLocal() and db.close(), "finished": the while loop ended,
\* "cancelled"), session the state of the session of its last iteration,
\* outcome how the body of that iteration ended, stop where the call of
\* stop_background_tasks stands, call the last call of start or stop and
\* whether it returned at its first test, sets the number of task sets
\* created so far.
NoBackground ==
    [running |-> FALSE,
     sync_task |-> "None",
     stop |-> "none",
     task |-> [l \in Loops |-> "none"],
     session |-> [l \in Loops |-> "none"],
     outcome |-> [l \in Loops |-> "none"],
     iterations |-> [l \in Loops |-> 0],
     cancel_requested |-> [l \in Loops |-> FALSE],
     cancelled_in_session |-> FALSE,
     call |-> "none",
     sets |-> 0]

TaskOver(l) == bg.task[l] \in {"none", "finished", "cancelled"}

\* A body that gives the event loop away inside the session.
SuspendsAlways(l) == TRUE

\* Does the body of loop l, between SessionLocal() and db.close(), suspend
\* the task: check_for_reorg, sync_latest_blocks and sync_mempool are
\* coroutines without an await that yields, validate_database_integrity is
\* a plain function.
SuspendsInSession(l) == FALSE

\* An iteration that leaves its session as it is.
close_skipped(session) == session

\* finally: db.close()
finally_close(session) == "closed"

\* How the body of an iteration can end: SessionLocal() raises, the body
\* returns, the sync call raises inside the inner try, anything else raises
\* to the outer except.
BodyOutcomes == {"no_session", "ok", "inner_error", "outer_error"}

\* start_background_tasks, called by lifespan at startup or by anyone
\* while no call of stop_background_tasks is in progress: with a task
\* handle it returns at once (call records that), without one it sets the
\* flag and creates the three tasks, the sets-th set of them.
StartBackgroundTasks ==
    /\ bg.stop \in {"none", "returned"}
    /\ IF bg.sync_task # "None"
       THEN bg' = [bg EXCEPT !.call = "start_ignored"]
       ELSE /\ bg.sets < MaxSets
            /\ bg' = [bg EXCEPT
                        !.running = TRUE,
                        !.task = [l \in Loops |-> "created"],
                        !.session = [l \in Loops |-> "none"],
                        !.outcome = [l \in Loops |-> "none"],
                        !.iterations = [l \in Loops |-> 0],
                        !.cancel_requested = [l \in Loops |-> FALSE],
                        !.sync_task = "gather",
                        !.stop = "none",
                        !.call = "start",
                        !.sets = @ + 1]
    /\ UNCHANGED <<remoteVars, deployVars, cacheVars, addresses, storeVars, pc, orchVars, last,
                   inbox, histVars>>

\* The event loop runs the periodic task l from the point where it is
\* suspended to its next suspension: from its creation or from the end of
\* its sleep through the while test and one iteration (session opened, body,
\* session closed) to asyncio.sleep(interval); from a suspension inside the
\* session through db.close() to the sleep. What the bodies do to the
\* mirror is PeriodicSync, GetRawMempool and ValidateDatabaseIntegrity above.
LoopStep ==
    \E l \in Loops :
       /\ bg.task[l] \in {"created", "sleeping", "in_session"}
       /\ ~bg.cancel_requested[l]
       /\ LET running == IF bg.task[l] = "created" /\ l = "sync"
                         THEN TRUE ELSE bg.running
          IN IF bg.task[l] = "in_session"
             THEN bg' = [bg EXCEPT !.session[l] = finally_close(@),
                                   !.task[l] = "sleeping"]
             ELSE IF ~running
             THEN bg' = [bg EXCEPT !.task[l] = "finished"]
             ELSE /\ bg.iterations[l] < MaxIter
                  /\ \E o \in BodyOutcomes :
                       bg' = [bg EXCEPT
                                !.running = running,
                                !.iterations[l] = @ + 1,
                                !.outcome[l] = o,
                                !.session[l] =
                                   IF o = "no_session" THEN "none"
                                   ELSE IF SuspendsInSession(l) THEN "open"
                                   ELSE finally_close("open"),
                                !.task[l] =
                                   IF o # "no_session" /\ SuspendsInSession(l)
                                   THEN "in_session" ELSE "sleeping"]
    /\ UNCHANGED <<remoteVars, deployVars, cacheVars, addresses, storeVars, pc, orchVars, last,
                   inbox, histVars>>

\* stop_background_tasks, called by lifespan at shutdown, up to
\* await asyncio.sleep(2); without a task handle it returns at once.
StopBackgroundTasks ==
    /\ bg.stop \in {"none", "returned"}
    /\ IF bg.sync_task = "None"
       THEN bg' = [bg EXCEPT !.stop = "returned", !.call = "stop_ignored"]
       ELSE bg' = [bg EXCEPT !.running = FALSE, !.stop = "grace",
                             !.call = "stop"]
    /\ UNCHANGED <<remoteVars, deployVars, cacheVars, addresses, storeVars, pc, orchVars, last,
                   inbox, histVars>>

\* The grace period is over: if the gathered tasks are done the handle is
\* cleared and stop returns, else _sync_task.cancel() asks every task that
\* is not done to cancel and stop awaits the handle.
StopCancel ==
    /\ bg.stop = "grace"
    /\ IF \A l \in Loops : TaskOver(l)
       THEN bg' = [bg EXCEPT !.sync_task = "None", !.stop = "returned"]
       ELSE bg' = [bg EXCEPT
                     !.cancel_requested = [l \in Loops |-> ~TaskOver(l)],
                     !.stop = "awaiting"]
    /\ UNCHANGED <<remoteVars, deployVars, cacheVars, addresses, storeVars, pc, orchVars, last,
                   inbox, histVars>>

\* CancelledError is thrown into task l where it is suspended: a task not
\* yet run or asleep ends at once; one suspended inside the session runs
\* finally: db.close() and ends (except Exception does not catch it).
LoopCancelled ==
    \E l \in Loops :
       /\ bg.cancel_requested[l]
       /\ ~TaskOver(l)
       /\ bg' = [bg EXCEPT
                   !.cancel_requested[l] = FALSE,
                   !.task[l] = "cancelled",
                   !.session[l] = IF bg.task[l] = "in_session"
                                  THEN finally_close(@) ELSE @,
                   !.cancelled_in_session =
                      @ \/ bg.task[l] = "in_session"]
    /\ UNCHANGED <<remoteVars, deployVars, cacheVars, addresses, storeVars, pc, orchVars, last,
                   inbox, histVars>>

\* await _sync_task ends when every gathered task is done; the handle is
\* cleared in the finally clause and stop returns.
StopReturn ==
    /\ bg.stop = "awaiting"
    /\ \A l \in Loops : TaskOver(l)
    /\ bg' = [bg EXCEPT !.sync_task = "None", !.stop = "returned"]
    /\ UNCHANGED <<remoteVars, deployVars, cacheVars, addresses, storeVars, pc, orchVars, last,
                   inbox, histVars>>

\* ------------------------------------------- save_transaction_to_db, faults
\* Where a call of save_transaction_to_db for a new transaction can raise:
\* nowhere, at db.flush() after db.add(transaction), while the inputs or the
\* outputs are added (the last of them is not), at db.commit(), and at
\* db.refresh() after the commit.
TxFaults == {"none", "flush", "vin", "vout", "commit", "refresh"}
PersistFaults == {"flush", "vin", "vout", "commit"}

\* The payloads of the transactions 1..MaxSaveTx: the number of entries of
\* vin and of vout is a function of the txid, and so are the fee the node
\* reports (transactions 2 and 5; negative for 2, as gettransaction gives
\* it), the presence of vin (missing for 6, empty for 3) and a coinbase as
\* first input (4 and 5).
VinCount(t) == t % 3
VoutCount(t) == 1 + (t \div 3)
HasFee(t) == t % 3 = 2
PayloadFee(t) == IF t = 2 THEN 0 - 2 ELSE t
HasVin(t) == t # 6
FirstIsCoinbase(t) == t \in {4, 5}
SavePayload(t) ==
    [txid |-> t,
     blockhash |-> None,
     blockheight |-> None,
     has_fee |-> HasFee(t),
     fee |-> IF HasFee(t) THEN PayloadFee(t) ELSE 0,
     has_vin |-> HasVin(t),
     vin |-> [i \in 1..VinCount(t) |->
                IF i = 1 /\ FirstIsCoinbase(t)
                THEN [coinbase |-> TRUE, txid |-> None, vout |-> None]
                ELSE [coinbase |-> FALSE, txid |-> MaxSaveTx + 1,
                      vout |-> i - 1]],
     vout |-> [i \in 1..VoutCount(t) |->
                 [n |-> i - 1, value |-> t, address |-> 1]]]

\* The rows the session holds for the transaction when the call has come to
\* point: the row after db.add/flush, the inputs and the outputs added so
\* far.
SessionAt(st, p, point) ==
    LET transaction == [id |-> NextId(st.txs),
                        txid |-> p.txid,
                        block_hash |-> p.blockhash,
                        block_height |-> p.blockheight,
                        fee |-> calculate_fee(p)]
        in0 == NextId(st.inputs)
        out0 == NextId(st.outputs)
        n_in == IF point = "flush" THEN 0
                ELSE IF point = "vin" THEN Len(p.vin) - 1
                ELSE Len(p.vin)
        n_out == IF point \in {"flush", "vin"} THEN 0
                 ELSE IF point = "vout" THEN Len(p.vout) - 1
                 ELSE Len(p.vout)
    IN [st EXCEPT
          !.txs = @ \cup {transaction},
          !.inputs = @ \cup
             {[id |-> in0 + i - 1,
               transaction_id |-> transaction.id,
               prev_txid |-> p.vin[i].txid,
               vout |-> p.vin[i].vout] : i \in 1..n_in},
          !.outputs = @ \cup
             {[id |-> out0 + i - 1,
               transaction_id |-> transaction.id,
               n |-> p.vout[i].n,
               value |-> p.vout[i].value,
               address |-> p.vout[i].address] : i \in 1..n_out}]

\* save_transaction_to_db with a fault at point: [ok, st], ok false when it
\* raises TransactionServiceError. A fault before the commit is followed by
\* db.rollback(); after the commit the rollback has nothing to undo.
save_transaction_faulted(fk, st, p, fault) ==
    LET existing_tx == get_transaction_by_txid(st.txs, p.txid)
        point == IF ~TxForeignKeyOk(fk, st.blocks, p.blockhash)
                 THEN "flush" ELSE fault
    IN IF existing_tx # {}
       THEN [ok |-> TRUE, st |-> st, point |-> "none"]
       ELSE IF point = "none"
       THEN [ok |-> TRUE, st |-> SessionAt(st, p, "none"), point |-> point]
       ELSE IF point = "refresh"
       THEN [ok |-> FALSE,
             st |-> rollback(SessionAt(st, p, "none"),
                             SessionAt(st, p, "none")),
             point |-> point]
       ELSE [ok |-> FALSE,
             st |-> rollback(st, SessionAt(st, p, point)),
             point |-> point]

\* A caller saves one of the payloads while the node or the store may fail
\* at any point of the call.
SaveTransaction ==
    /\ pc = "idle"
    /\ pc' = "returned"
    /\ \E t \in 1..MaxSaveTx, fault \in TxFaults :
         /\ fault = "vin" => VinCount(t) > 0
         /\ LET p == SavePayload(t)
                r == save_transaction_faulted(fkEnforced, Store, p, fault)
            IN /\ txs' = r.st.txs
               /\ inputs' = r.st.inputs
               /\ outputs' = r.st.outputs
               /\ last' = [NoLast EXCEPT
                             !.op = "save_transaction_to_db",
                             !.key = t,
                             !.ok = r.ok,
                             !.fault = r.point,
                             !.rep = get_transaction_by_txid(txs, t) # {},
                             !.n_vin = Len(p.vin),
                             !.n_vout = Len(p.vout)]
    /\ UNCHANGED <<remoteVars, deployVars, bg, cacheVars, addresses, blocks, orchVars, inbox,
                   histVars>>

\* ------------------------------------------------------------- block lists
\* The classes app/schemas/block.py defines.
BlockSchemas ==
    {"BlockBase", "BlockCreate", "BlockUpdate", "Block", "BlockSummary",
     "BlockWithTransactions", "BlockListResponse"}

\* from app.schemas.block import Block, BlockList
BlocksApiImports == {"Block", "BlockList"}

\* An import that finds every name.
ImportFound(names, defined) == TRUE

\* The import statement of app/api/blocks.py succeeds when the module
\* imported from defines every name; otherwise it raises ImportError and
\* neither the router nor its handlers exist.
ImportSucceeds(names, defined) == names \subseteq defined

\* pages=(total + limit - 1) // limit
Pages(total, limit) == (total + limit - 1) \div limit

\* GET /blocks and GET /blocks/{hash}/transactions, for a store in which the
\* service counts total rows: the response carries total, page, limit and
\* pages when the module of the handlers could be imported.
GetBlocks ==
    /\ pc = "idle"
    /\ pc' = "returned"
    /\ \E op \in {"get_blocks", "get_block_transactions"},
          total \in 0..MaxTotal, page \in 1..MaxPage, limit \in 1..MaxLimit :
       LET ok == ImportSucceeds(BlocksApiImports, BlockSchemas)
       IN last' = [NoLast EXCEPT
                     !.op = op,
                     !.ok = ok,
                     !.req_page = page,
                     !.req_limit = limit,
                     !.total = total,
                     !.page = IF ok THEN page ELSE None,
                     !.limit = IF ok THEN limit ELSE None,
                     !.pages = IF ok THEN Pages(total, limit) ELSE None]
    /\ UNCHANGED <<remoteVars, deployVars, bg, cacheVars, addresses, storeVars, orchVars, inbox,
                   histVars>>

\* ------------------------------------------------------------------- cache
\* Strings are written as the sequences of their characters.
StartsWith(s, prefix) ==
    /\ Len(prefix) <= Len(s)
    /\ SubSeq(s, 1, Len(prefix)) = prefix

\* The key prefixes of the cached functions and the arguments they are
\* called with.
KeyPrefixes == {<<"t", "x">>, <<"a">>}
CacheArgs == 1..MaxCacheArg

\* key_string = ":".join(key_parts): the prefix and str(arg).
KeyString(prefix, arg) == <<prefix, arg>>

\* hashlib.md5(key_string.encode()).hexdigest() of "tx:1", "tx:2", "a:1"
\* and "a:2".
md5(key_string) ==
    CASE key_string = KeyString(<<"t", "x">>, 1) ->
           <<"0", "1", "2", "0", "d", "5", "f", "2", "7", "d", "b", "2", "6", "e", "f", "b",
            "d", "d", "8", "f", "1", "f", "d", "1", "0", "4", "8", "f", "f", "5", "7", "4">>
      [] key_string = KeyString(<<"t", "x">>, 2) ->
           <<"a", "2", "4", "0", "b", "9", "2", "3", "6", "0", "3", "7", "1", "1", "c", "4",
            "b", "5", "7", "6", "c", "e", "2", "e", "c", "6", "9", "0", "3", "3", "c", "2">>
      [] key_string = KeyString(<<"a">>, 1) ->
           <<"9", "e", "f", "1", "2", "b", "2", "e", "7", "6", "0", "5", "2", "e", "a", "0",
            "1", "b", "f", "3", "9", "4", "a", "7", "9", "5", "1", "8", "f", "e", "9", "0">>
      [] key_string = KeyString(<<"a">>, 2) ->
           <<"6", "0", "2", "6", "0", "4", "5", "1", "2", "e", "b", "3", "f", "c", "7", "d",
            "3", "2", "3", "8", "d", "8", "e", "c", "a", "5", "1", "b", "c", "3", "8", "4">>

\* SimpleCache._generate_key
generate_key(prefix, arg) == md5(KeyString(prefix, arg))

CacheKeys == {generate_key(p, a) : p \in KeyPrefixes, a \in CacheArgs}
CacheValues == 1..MaxCacheValue

\* cache = SimpleCache(default_ttl=300)
default_ttl == 300

EntryOf(c, key) == {e \in c : e.key = key}

\* An entry that counts as expired from its expiry instant on.
ExpiredFromInstant(t, entry) == t >= entry.expires_at

\* current_time > entry["expires_at"]
Expired(t, entry) == t > entry.expires_at

\* SimpleCache.get: None without an entry; an expired entry is deleted and
\* None returned; otherwise the value of the entry.
cache_get(c, key, t) ==
    IF EntryOf(c, key) = {}
    THEN [value |-> None, cache |-> c]
    ELSE LET entry == CHOOSE e \in EntryOf(c, key) : TRUE
         IN IF Expired(t, entry)
            THEN [value |-> None, cache |-> c \ {entry}]
            ELSE [value |-> entry.value, cache |-> c]

\* SimpleCache.set
cache_set(c, key, value, ttl, t) ==
    LET used == IF ttl = None THEN default_ttl ELSE ttl
    IN (c \ EntryOf(c, key))
         \cup {[key |-> key, value |-> value, expires_at |-> t + used]}

\* SimpleCache.delete
cache_delete(c, key) == c \ EntryOf(c, key)

\* SimpleCache.clear
cache_clear(c) == {}

\* A selection by the prefix the key was generated from.
KeysOfPrefix(c, key_prefix) ==
    {e.key : e \in {x \in c : \E a \in CacheArgs :
                                x.key = generate_key(key_prefix, a)}}

\* keys_to_delete of invalidate_cache: key.startswith(key_prefix) over the
\* keys of cache._cache.
keys_to_delete(c, key_prefix) ==
    {e.key : e \in {x \in c : StartsWith(x.key, key_prefix)}}

\* invalidate_cache
invalidate_cache(c, key_prefix) ==
    IF key_prefix = <<>>
    THEN cache_clear(c)
    ELSE {e \in c : e.key \notin keys_to_delete(c, key_prefix)}

\* The ttl of the decorator of the cached functions.
DecoratorTtl == MaxTtl

\* time.time() moves on.
Tick ==
    /\ now < MaxTime
    /\ now' = now + 1
    /\ UNCHANGED <<remoteVars, deployVars, bg, cache, addresses, storeVars, pc,
                   orchVars, last, inbox, histVars>>

\* cache.set(key, value, ttl)
CacheSet ==
    /\ pc = "idle"
    /\ pc' = "returned"
    /\ \E key \in CacheKeys, value \in CacheValues,
          ttl \in (0..MaxTtl) \cup {None} :
         /\ EntryOf(cache, key) = {} => Cardinality(cache) < MaxEntries
         /\ cache' = cache_set(cache, key, value, ttl, now)
         /\ last' = [NoLast EXCEPT !.op = "cache.set", !.cache_key = key,
                                   !.value = value, !.ttl = ttl]
    /\ UNCHANGED <<remoteVars, deployVars, bg, now, addresses, storeVars, orchVars,
                   inbox, histVars>>

\* cache.get(key)
CacheGet ==
    /\ pc = "idle"
    /\ pc' = "returned"
    /\ \E key \in CacheKeys :
         LET r == cache_get(cache, key, now)
         IN /\ cache' = r.cache
            /\ last' = [NoLast EXCEPT !.op = "cache.get", !.cache_key = key,
                                      !.value = r.value]
    /\ UNCHANGED <<remoteVars, deployVars, bg, now, addresses, storeVars, orchVars,
                   inbox, histVars>>

\* cache.delete(key)
CacheDelete ==
    /\ pc = "idle"
    /\ pc' = "returned"
    /\ \E key \in CacheKeys :
         /\ cache' = cache_delete(cache, key)
         /\ last' = [NoLast EXCEPT !.op = "cache.delete",
                                   !.cache_key = key,
                                   !.ok = EntryOf(cache, key) # {}]
    /\ UNCHANGED <<remoteVars, deployVars, bg, now, addresses, storeVars, orchVars,
                   inbox, histVars>>

\* A call of a function decorated with @cached or @cached_async: the value
\* of a live entry is returned, otherwise the function is called and its
\* result stored under the generated key.
CachedCall ==
    /\ pc = "idle"
    /\ pc' = "returned"
    /\ \E prefix \in KeyPrefixes, arg \in CacheArgs, res \in CacheValues :
         LET cache_key == generate_key(prefix, arg)
             got == cache_get(cache, cache_key, now)
         IN /\ EntryOf(got.cache, cache_key) = {}
                 => Cardinality(got.cache) < MaxEntries
            /\ cache' = IF got.value # None
                        THEN got.cache
                        ELSE cache_set(got.cache, cache_key, res,
                                       DecoratorTtl, now)
            /\ last' = [NoLast EXCEPT
                          !.op = "cached",
                          !.cache_key = cache_key,
                          !.prefix = prefix,
                          !.rep = got.value # None,
                          !.value = IF got.value # None THEN got.value
                                    ELSE res]
    /\ UNCHANGED <<remoteVars, deployVars, bg, now, addresses, storeVars, orchVars,
                   inbox, histVars>>

\* POST /cache/clear?prefix=...: invalidate_cache(prefix), cache.clear()
\* for the empty prefix.
ClearCache ==
    /\ pc = "idle"
    /\ pc' = "returned"
    /\ \E prefix \in KeyPrefixes \cup {<<>>} :
         /\ cache' = invalidate_cache(cache, prefix)
         /\ last' = [NoLast EXCEPT !.op = "invalidate_cache",
                                   !.prefix = prefix]
    /\ UNCHANGED <<remoteVars, deployVars, bg, now, addresses, storeVars, orchVars,
                   inbox, histVars>>

\* ----------------------------------------------------------------- addresses
\* A balance that counts what was received only.
StatsReceivedOnly(total_received, total_spent) == total_received

\* balance = total_received - total_spent, of _update_address_stats
StatsBalance(total_received, total_spent) == total_received - total_spent

\* AddressService._update_address_stats on the store st: the balance and
\* tx_count it assigns to the row of the address; ok is false when it raises
\* AddressServiceError (an output of the address has no transaction row).
update_address_stats(st, address) ==
    LET outs == {o \in st.outputs : o.address = address}
        txid_of(o) == First(OwnerOf(st.txs, o)).txid
    IN IF \E o \in outs : OwnerOf(st.txs, o) = {}
       THEN [ok |-> FALSE, balance |-> 0, tx_count |-> 0]
       ELSE LET spent_outputs ==
                   {<<txid_of(o), o.n>> : o \in
                      {x \in outs :
                         \E i \in st.inputs : /\ i.prev_txid = txid_of(x)
                                              /\ i.vout = x.n}}
                total_received == SumValues(outs)
                total_spent ==
                   SumValues({o \in outs :
                                <<txid_of(o), o.n>> \in spent_outputs})
                unique_txids == {txid_of(o) : o \in outs}
            IN [ok |-> TRUE,
                balance |-> StatsBalance(total_received, total_spent),
                tx_count |-> Cardinality(unique_txids)]

\* if block_height: None and 0 are false.
TruthyHeight(block_height) == block_height # None /\ block_height # 0

\* The branch of create_or_update_address for an existing row: first and
\* last seen as they are assigned before the statistics.
SeenUpdated(row, block_height) ==
    IF ~TruthyHeight(block_height) THEN row
    ELSE LET first == IF row.first_seen_block = None
                         \/ block_height < row.first_seen_block
                      THEN block_height ELSE row.first_seen_block
             last_seen == IF row.last_seen_block = None
                             \/ block_height > row.last_seen_block
                          THEN block_height ELSE row.last_seen_block
         IN [row EXCEPT !.first_seen_block = first,
                        !.last_seen_block = last_seen]

\* AddressService.create_or_update_address on the store st and the address
\* rows rows: [ok, rows]. A new row is committed before its statistics are
\* computed; when the statistics raise, the except clause rolls back what
\* was not committed and AddressServiceError is raised.
create_or_update_address(st, rows, address, block_height) ==
    LET existing_address == {r \in rows : r.address = address}
        stats == update_address_stats(st, address)
    IN IF existing_address # {}
       THEN LET row == First(existing_address)
                seen == SeenUpdated(row, block_height)
                open == (rows \ {row})
                          \cup {[seen EXCEPT !.balance = stats.balance,
                                             !.tx_count = stats.tx_count]}
            IN IF stats.ok THEN [ok |-> TRUE, rows |-> open]
               ELSE [ok |-> FALSE, rows |-> rollback(rows, open)]
       ELSE LET new_address == [id |-> NextId(rows),
                                address |-> address,
                                balance |-> 0,
                                tx_count |-> 0,
                                first_seen_block |-> block_height,
                                last_seen_block |-> block_height]
                committed == rows \cup {new_address}
                open == rows
                          \cup {[new_address EXCEPT
                                   !.balance = stats.balance,
                                   !.tx_count = stats.tx_count]}
            IN IF stats.ok THEN [ok |-> TRUE, rows |-> open]
               ELSE [ok |-> FALSE, rows |-> rollback(committed, open)]

\* The addresses create_or_update_address is called for, and the heights it
\* is called with.
CalledAddresses == 1..MaxCalled
SeenHeights == (0..MaxSeen) \cup {None}

\* A caller creates or updates the row of an address.
CreateOrUpdateAddress ==
    /\ pc = "idle"
    /\ pc' = "returned"
    /\ \E address \in CalledAddresses, block_height \in SeenHeights :
         LET r == create_or_update_address(Store, addresses, address,
                                           block_height)
         IN /\ addresses' = r.rows
            /\ last' = [NoLast EXCEPT
                          !.op = "create_or_update_address",
                          !.key = address,
                          !.ok = r.ok,
                          !.rep = \E a \in addresses : a.address = address,
                          !.tip_height = block_height]
    /\ UNCHANGED <<remoteVars, deployVars, bg, cacheVars, storeVars,
                   orchVars, inbox, histVars>>

\* ------------------------------------------------------------------ system
Init ==
    /\ chain = <<>>
    /\ nextHash = 1
    /\ mempool = {}
    /\ txLinked \in BOOLEAN
    /\ fkEnforced \in BOOLEAN
    /\ blocks = {}
    /\ txs = {}
    /\ inputs = {}
    /\ outputs = {}
    /\ pc = "idle"
    /\ is_syncing = SyncService_init.is_syncing
    /\ sync_stats = SyncService_init.sync_stats
    /\ run = NoRun
    /\ full = NoFull
    /\ result = NoResult
    /\ last = NoLast
    /\ response = NoResponse
    /\ inbox = <<>>
    /\ viaMempool = {}
    /\ prevFailed = {}
    /\ bg = NoBackground
    /\ cache = {}
    /\ now = 0
    /\ addresses = {}

Next ==
    \/ Mine
    \/ Reorg
    \/ Broadcast
    \/ Return
    \/ IngestBlock
    \/ IngestTransaction
    \/ GetOrFetchBlock
    \/ GetOrFetchGenesis
    \/ GetRawMempool
    \/ SyncMempool
    \/ HandleReorg
    \/ TaskDone
    \/ PeriodicSync
    \/ Arrive
    \/ HandleStart
    \/ HandleFull
    \/ SyncLatestEntry
    \/ SyncBlock
    \/ FullSyncEntry
    \/ FullBatch
    \/ FullReturn
    \/ GetSyncStats
    \/ GetAddressBalance
    \/ ValidateDatabaseIntegrity
    \/ CheckForReorg
    \/ ExecuteRpcCall
    \/ StartBackgroundTasks
    \/ LoopStep
    \/ StopBackgroundTasks
    \/ StopCancel
    \/ LoopCancelled
    \/ StopReturn
    \/ GetBlocks
    \/ SaveTransaction
    \/ Tick
    \/ CacheSet
    \/ CacheGet
    \/ CacheDelete
    \/ CachedCall
    \/ ClearCache
    \/ CreateOrUpdateAddress

\* The whole system. The specifications below are the parts of it that are
\* explored: each keeps the remote node and leaves out the operations that
\* write nothing its properties read.
Spec == Init /\ [][Next]_vars

\* The block table: the calls that read or write it, while the remote chain
\* grows and reorganizes.
NextBlocks ==
    \/ Mine
    \/ Reorg
    \/ Return
    \/ IngestBlock
    \/ GetOrFetchBlock
    \/ HandleReorg

SpecBlocks == Init /\ [][NextBlocks]_vars


\* Blocks and transactions: the ingestion services and handle_reorg, called
\* one after another while the remote chain grows and reorganizes.
NextLedger ==
    \/ Mine
    \/ Reorg
    \/ Broadcast
    \/ Return
    \/ IngestBlock
    \/ IngestTransaction
    \/ GetOrFetchBlock
    \/ HandleReorg

SpecLedger == Init /\ [][NextLedger]_vars

\* The SyncService runs (periodic loop, POST /sync/start, POST /sync/full)
\* while the remote chain grows.
NextRuns ==
    \/ Mine
    \/ TaskDone
    \/ PeriodicSync
    \/ Arrive
    \/ HandleStart
    \/ HandleFull
    \/ SyncLatestEntry
    \/ SyncBlock
    \/ FullSyncEntry
    \/ FullBatch
    \/ FullReturn

SpecRuns == Init /\ [][NextRuns]_vars

\* The runs together with sync_mempool and the broadcast of transactions.
NextSync ==
    \/ Mine
    \/ Broadcast
    \/ Return
    \/ GetRawMempool
    \/ SyncMempool
    \/ TaskDone
    \/ PeriodicSync
    \/ Arrive
    \/ HandleStart
    \/ HandleFull
    \/ SyncLatestEntry
    \/ SyncBlock
    \/ FullSyncEntry
    \/ FullBatch
    \/ FullReturn

SpecSync == Init /\ [][NextSync]_vars

\* The runs while a caller of BlockService stores blocks by
\* get_or_fetch_block and the remote chain grows.
NextMirror ==
    \/ Mine
    \/ Return
    \/ GetOrFetchBlock
    \/ TaskDone
    \/ PeriodicSync
    \/ Arrive
    \/ HandleStart
    \/ HandleFull
    \/ SyncLatestEntry
    \/ SyncBlock
    \/ FullSyncEntry
    \/ FullBatch
    \/ FullReturn

SpecMirror == Init /\ [][NextMirror]_vars

\* The periodic sync loop, running for ever, while the remote chain grows and
\* reorganizes and a caller of BlockService stores blocks. The event loop
\* runs every task that is ready: a coroutine that can take its next step
\* takes it, and the periodic task is woken after each sleep.
NextRepair ==
    \/ Mine
    \/ Reorg
    \/ Return
    \/ IngestBlock
    \/ TaskDone
    \/ PeriodicSync
    \/ SyncLatestEntry
    \/ SyncBlock

SpecRepair ==
    /\ Init
    /\ [][NextRepair]_vars
    /\ WF_vars(Return)
    /\ WF_vars(TaskDone)
    /\ SF_vars(PeriodicSync)
    /\ WF_vars(SyncLatestEntry)
    /\ WF_vars(SyncBlock)

\* A mirror of up to MaxStored blocks of which at most one is not the block
\* the remote chain has at its height (the remote chain was reorganized at
\* that height after the block was stored).
InitRecent ==
    /\ \E n \in 0..MaxStored :
       \E stale \in {{}} \cup {{h} : h \in 1..n} :
         /\ chain = [h \in 1..n |-> [hash |-> h, tx |-> <<CoinbaseTxid(h)>>]]
         /\ nextHash = n + 1
         /\ blocks = {[id |-> h,
                       hash |-> IF h \in stale THEN 0 - h - 1 ELSE h,
                       height |-> h,
                       previous_block_hash |-> h - 1,
                       next_block_hash |-> IF h < n THEN h + 1 ELSE None,
                       n_tx |-> 1]
                        : h \in 1..n}
    /\ mempool = {}
    /\ txLinked \in BOOLEAN
    /\ fkEnforced \in BOOLEAN
    /\ txs = {}
    /\ inputs = {}
    /\ outputs = {}
    /\ pc = "idle"
    /\ is_syncing = SyncService_init.is_syncing
    /\ sync_stats = SyncService_init.sync_stats
    /\ run = NoRun
    /\ full = NoFull
    /\ result = NoResult
    /\ last = NoLast
    /\ response = NoResponse
    /\ inbox = <<>>
    /\ viaMempool = {}
    /\ prevFailed = {}
    /\ bg = NoBackground
    /\ cache = {}
    /\ now = 0
    /\ addresses = {}

\* check_for_reorg called on such a mirror.
NextRecent ==
    \/ Return
    \/ CheckForReorg

SpecRecent == InitRecent /\ [][NextRecent]_vars

\* The RPC client, called with every script of the node's behaviour.
NextRpc ==
    \/ Return
    \/ ExecuteRpcCall

SpecRpc == Init /\ [][NextRpc]_vars

\* The runs and the clients that read the statistics after them.
NextStats ==
    \/ Mine
    \/ TaskDone
    \/ PeriodicSync
    \/ Arrive
    \/ HandleStart
    \/ HandleFull
    \/ SyncLatestEntry
    \/ SyncBlock
    \/ FullSyncEntry
    \/ FullBatch
    \/ FullReturn
    \/ GetSyncStats

SpecStats == Init /\ [][NextStats]_vars

\* The stores get_address_balance is called on: up to MaxBalTx transaction
\* rows (the row with id 1 unconfirmed), up to MaxBalOut output rows owned
\* by a stored transaction or by none (left by a rollback), up to MaxBalIn
\* input rows that name any output, the same one twice included.
InitBalance ==
    /\ \E ids \in SUBSET (1..MaxBalTx) :
       \E txid_of \in [ids -> 1..MaxBalTx] :
         /\ \A i, j \in ids : txid_of[i] = txid_of[j] => i = j
         /\ txs = {[id |-> i, txid |-> txid_of[i],
                    block_hash |-> IF i = 1 THEN None ELSE 1,
                    block_height |-> IF i = 1 THEN None ELSE 1,
                    fee |-> None] : i \in ids}
    /\ \E k \in 0..MaxBalOut :
       \E o \in [1..k -> [transaction_id : 1..MaxBalTx, n : 0..1,
                          value : 0..MaxValue, address : BalAddresses]] :
         outputs = {[id |-> i, transaction_id |-> o[i].transaction_id,
                     n |-> o[i].n, value |-> o[i].value,
                     address |-> o[i].address] : i \in 1..k}
    /\ \E k \in 0..MaxBalIn :
       \E x \in [1..k -> [prev_txid : 1..MaxBalTx, vout : 0..1]] :
         inputs = {[id |-> i, transaction_id |-> 1,
                    prev_txid |-> x[i].prev_txid, vout |-> x[i].vout]
                     : i \in 1..k}
    /\ chain = <<>>
    /\ nextHash = 1
    /\ mempool = {}
    /\ txLinked \in {TRUE}
    /\ fkEnforced \in {FALSE}
    /\ blocks = {}
    /\ pc = "idle"
    /\ is_syncing = SyncService_init.is_syncing
    /\ sync_stats = SyncService_init.sync_stats
    /\ run = NoRun
    /\ full = NoFull
    /\ result = NoResult
    /\ last = NoLast
    /\ response = NoResponse
    /\ inbox = <<>>
    /\ viaMempool = {}
    /\ prevFailed = {}
    /\ bg = NoBackground
    /\ cache = {}
    /\ now = 0
    /\ addresses = {}

\* get_address_balance called on such a store.
NextBalance ==
    \/ Return
    \/ GetAddressBalance

SpecBalance == InitBalance /\ [][NextBalance]_vars

\* The stores the validation is called on. The node's chain has
\* MaxAuditHeight blocks, the block at height h with hash h; the mirror
\* holds any of the heights, each with the node's hash or with that of a
\* block since replaced (0 - h - 1), a previous_block_hash that names the
\* node's block below or a replaced one, and a transaction count of 1 or 2;
\* up to MaxAuditTx transactions are stored, each unconfirmed or linked to a
\* hash that a stored block may or may not have.
AuditHashes == {h : h \in 1..MaxAuditHeight}
                 \cup {0 - h - 1 : h \in 1..MaxAuditHeight}

InitAudit ==
    /\ chain = [h \in 1..MaxAuditHeight |->
                  [hash |-> h, tx |-> <<CoinbaseTxid(h)>>]]
    /\ nextHash = MaxAuditHeight + 1
    /\ \E heights \in SUBSET (1..MaxAuditHeight) :
       \E stale \in SUBSET heights :
       \E stale_prev \in SUBSET (heights \ {1}) :
       \E n_tx \in [heights -> 1..2] :
         blocks = {[id |-> h,
                    hash |-> IF h \in stale THEN 0 - h - 1 ELSE h,
                    height |-> h,
                    previous_block_hash |->
                       IF h \in stale_prev THEN 0 - h ELSE h - 1,
                    next_block_hash |-> None,
                    n_tx |-> n_tx[h]] : h \in heights}
    /\ \E k \in 0..MaxAuditTx :
       \E link \in [1..k -> {None} \cup AuditHashes] :
         txs = {[id |-> i, txid |-> i, block_hash |-> link[i],
                 block_height |-> None, fee |-> None] : i \in 1..k}
    /\ inputs = {}
    /\ outputs = {}
    /\ mempool = {}
    /\ txLinked \in {TRUE}
    /\ fkEnforced \in {FALSE}
    /\ pc = "idle"
    /\ is_syncing = SyncService_init.is_syncing
    /\ sync_stats = SyncService_init.sync_stats
    /\ run = NoRun
    /\ full = NoFull
    /\ result = NoResult
    /\ last = NoLast
    /\ response = NoResponse
    /\ inbox = <<>>
    /\ viaMempool = {}
    /\ prevFailed = {}
    /\ bg = NoBackground
    /\ cache = {}
    /\ now = 0
    /\ addresses = {}

\* The two read-only checks called on such a store.
NextAudit ==
    \/ Return
    \/ ValidateDatabaseIntegrity
    \/ CheckForReorg

SpecAudit == InitAudit /\ [][NextAudit]_vars

\* The life of the background tasks, from startup to shutdown.
NextBackground ==
    \/ StartBackgroundTasks
    \/ LoopStep
    \/ StopBackgroundTasks
    \/ StopCancel
    \/ LoopCancelled
    \/ StopReturn

SpecBackground == Init /\ [][NextBackground]_vars

\* The paginated block endpoints, asked with every request.
NextPages ==
    \/ Return
    \/ GetBlocks

SpecPages == Init /\ [][NextPages]_vars

\* save_transaction_to_db called with faults, on the store its earlier calls
\* have left.
NextSave ==
    \/ Return
    \/ SaveTransaction

SpecSave == Init /\ [][NextSave]_vars

\* The cache, its decorators and its endpoint, while time passes.
NextCache ==
    \/ Return
    \/ Tick
    \/ CacheSet
    \/ CacheGet
    \/ CacheDelete
    \/ CachedCall
    \/ ClearCache

SpecCache == Init /\ [][NextCache]_vars

\* A remote chain of 1..MaxHeight blocks that no longer changes, and an empty
\* mirror.
InitSettled ==
    /\ \E n \in 1..MaxHeight :
         /\ chain = [h \in 1..n |-> [hash |-> h, tx |-> <<CoinbaseTxid(h)>>]]
         /\ nextHash = n + 1
    /\ mempool = {}
    /\ txLinked \in BOOLEAN
    /\ fkEnforced \in BOOLEAN
    /\ blocks = {}
    /\ txs = {}
    /\ inputs = {}
    /\ outputs = {}
    /\ pc = "idle"
    /\ is_syncing = SyncService_init.is_syncing
    /\ sync_stats = SyncService_init.sync_stats
    /\ run = NoRun
    /\ full = NoFull
    /\ result = NoResult
    /\ last = NoLast
    /\ response = NoResponse
    /\ inbox = <<>>
    /\ viaMempool = {}
    /\ prevFailed = {}
    /\ bg = NoBackground
    /\ cache = {}
    /\ now = 0
    /\ addresses = {}

\* The runs against that chain, and the validation between them.
NextSettled ==
    \/ TaskDone
    \/ PeriodicSync
    \/ Arrive
    \/ HandleStart
    \/ HandleFull
    \/ SyncLatestEntry
    \/ SyncBlock
    \/ FullSyncEntry
    \/ FullBatch
    \/ FullReturn
    \/ Return
    \/ ValidateDatabaseIntegrity

SpecSettled == InitSettled /\ [][NextSettled]_vars

\* The runs while callers of BlockService also ask for the block at height 0.
NextGenesis ==
    \/ Mine
    \/ Return
    \/ GetOrFetchBlock
    \/ GetOrFetchGenesis
    \/ TaskDone
    \/ PeriodicSync
    \/ Arrive
    \/ HandleStart
    \/ HandleFull
    \/ SyncLatestEntry
    \/ SyncBlock
    \/ FullSyncEntry
    \/ FullBatch
    \/ FullReturn

SpecGenesis == Init /\ [][NextGenesis]_vars

\* The stores create_or_update_address is called on: the transaction row 1,
\* with or without the row 2, up to MaxBalOut outputs with a value, owned by
\* a stored transaction or by none, and at most one input.
InitAddress ==
    /\ \E ids \in {{1}, 1..MaxBalTx} :
         txs = {[id |-> i, txid |-> i,
                 block_hash |-> IF i = 1 THEN None ELSE 1,
                 block_height |-> IF i = 1 THEN None ELSE 1,
                 fee |-> None] : i \in ids}
    /\ \E k \in 0..MaxBalOut :
       \E o \in [1..k -> [transaction_id : 1..MaxBalTx, n : 0..1,
                          value : 1..MaxValue, address : BalAddresses]] :
         outputs = {[id |-> i, transaction_id |-> o[i].transaction_id,
                     n |-> o[i].n, value |-> o[i].value,
                     address |-> o[i].address] : i \in 1..k}
    /\ \E k \in 0..1 :
       \E x \in [1..k -> [prev_txid : 1..MaxBalTx, vout : 0..1]] :
         inputs = {[id |-> i, transaction_id |-> 1,
                    prev_txid |-> x[i].prev_txid, vout |-> x[i].vout]
                     : i \in 1..k}
    /\ chain = <<>>
    /\ nextHash = 1
    /\ mempool = {}
    /\ txLinked \in {TRUE}
    /\ fkEnforced \in {FALSE}
    /\ blocks = {}
    /\ pc = "idle"
    /\ is_syncing = SyncService_init.is_syncing
    /\ sync_stats = SyncService_init.sync_stats
    /\ run = NoRun
    /\ full = NoFull
    /\ result = NoResult
    /\ last = NoLast
    /\ response = NoResponse
    /\ inbox = <<>>
    /\ viaMempool = {}
    /\ prevFailed = {}
    /\ bg = NoBackground
    /\ cache = {}
    /\ now = 0
    /\ addresses = {}

\* create_or_update_address called on such a store, again and again.
NextAddress ==
    \/ Return
    \/ CreateOrUpdateAddress

SpecAddress == InitAddress /\ [][NextAddress]_vars

\* ================================================================ claims
\* C1. At most one sync run is Syncing at a time, and a start request that
\* arrives while a run is in progress is rejected with 409 instead of
\* starting a second run: a response to a request that arrived while the
\* guard was set carries 409.
C1_RequestDuringRunRejected ==
    (response.kind # "none" /\ response.during) => response.code = 409

\* C2. A sync_latest_blocks run over start_height..end_height in which the
\* fetch fails at exactly one height and nothing else fails reports exactly
\* one error, leaves every other height of the range in the mirror, and ends
\* with is_syncing false.
C2_BestEffortSync ==
    (/\ result.op = "sync_latest"
     /\ result.status = "ok"
     /\ Cardinality(result.failed) = 1
     /\ result.txfail = 0)
    => /\ result.errors = 1
       /\ \A h \in result.start_height..result.end_height :
            h \notin result.failed => h \in result.present
       /\ ~result.flag_after

\* C3. handle_reorg(new_tip_hash), for a tip the node knows, returns having
\* found the common ancestor (the highest height not above the tip's at which
\* mirror and node agree, 0 if none); no block above it and no transaction of
\* such a block remains, and the blocks up to it and their transactions are
\* as they were.
C3_ReorgRollback ==
    (last.op = "handle_reorg" /\ last.tip_height # None)
    => /\ last.ok
       /\ last.common = last.expect
       /\ \A b \in blocks : b.height <= last.expect
       /\ \A t \in txs : t.block_height = None \/ t.block_height <= last.expect
       /\ last.kept

\* C4. full_sync started with the mirror below the remote height, and with no
\* failure of the node or the store, ends normally with the mirror height
\* equal to the remote height.
C4_FullSyncReachesTip ==
    (/\ result.op = "full_sync"
     /\ result.acquired
     /\ result.node_ok
     /\ result.db_height < result.network_height)
    => /\ result.status = "ok"
       /\ get_latest_block_height(blocks) = result.network_height

\* C5. A transaction whose row sync_mempool created with a null block link,
\* ingested again by block sync from a payload that carries blockhash and
\* blockheight, is afterwards the same single row and carries that block
\* hash.
C5_MempoolTxGainsLink ==
    (/\ last.op = "save_tx"
     /\ last.key \in viaMempool
     /\ last.was_unlinked
     /\ last.link # None)
    => /\ last.ok
       /\ Cardinality(get_transaction_by_txid(txs, last.key)) = 1
       /\ \A r \in get_transaction_by_txid(txs, last.key) :
            r.id = last.id /\ r.block_hash = last.link

\* C6. Linkage: for any two stored blocks at heights h-1 and h, the
\* previous_block_hash of the block at h is the hash of the block at h-1.
C6_Linkage ==
    \A a \in blocks, b \in blocks :
       b.height = a.height + 1 => b.previous_block_hash = a.hash

\* C7. At most one stored block has any given height and at most one has any
\* given hash, and an attempt to ingest a block at a height that another
\* block occupies fails and leaves the stored blocks as they were.
C7_HeightAndHashUnique ==
    /\ \A a \in blocks, b \in blocks :
         (a.height = b.height \/ a.hash = b.hash) => a = b
    /\ (last.op \in {"save_block", "get_or_fetch_block(hash)"} /\ last.occupied)
       => (~last.ok /\ ~last.changed)

C7_Witness ==
    /\ last.op = "save_block"
    /\ last.occupied
    /\ ~last.ok
    /\ blocks # {}

\* C8, as stated. Ingesting the same block (by hash) or transaction (by
\* txid) twice: both calls return the same row, the second raises no error,
\* one row is stored and the second call adds nothing.
C8_IdempotentAsStated ==
    (last.op \in {"save_block", "save_tx"} /\ last.rep)
    => /\ last.prev_ok
       /\ last.ok
       /\ last.id = last.prev_id
       /\ ~last.changed

\* C8, amended. When the first of two ingestions of the same block (by hash)
\* or transaction (by txid) succeeded, the second raises no error, returns
\* the row with the same identifier, adds no row (block, transaction, input
\* or output) and exactly one row is stored for it.
C8_IdempotentAfterSuccess ==
    (last.op \in {"save_block", "save_tx"} /\ last.rep /\ last.prev_ok)
    => /\ last.ok
       /\ last.id = last.prev_id
       /\ ~last.changed
       /\ last.op = "save_block" =>
            Cardinality(get_block_by_hash(blocks, last.key)) = 1
       /\ last.op = "save_tx" =>
            Cardinality(get_transaction_by_txid(txs, last.key)) = 1

C8_Witness ==
    /\ last.op = "save_block"
    /\ last.rep
    /\ last.prev_ok
    /\ last.ok

\* C9. When a call of sync_latest_blocks or full_sync that acquired the
\* guard has ended (no-op, normal result, failed height query, any other
\* exception) is_syncing is false, and the guard is never set while no run
\* is in progress.
C9_GuardCleared ==
    /\ result.acquired => ~result.flag_after
    /\ pc \in {"idle", "returned", "task_done"} => ~is_syncing

C9_Witness ==
    /\ result.op = "sync_latest"
    /\ result.acquired
    /\ result.status = "error"
    /\ pc = "task_done"

\* C10. sync_latest_blocks called while the flag is true raises its
\* SyncServiceError before any call to the node and any write: the mirror,
\* the statistics and the flag are as before the call.
C10_RejectedCallChangesNothing ==
    [][(pc = "call_sync" /\ pc' # "call_sync" /\ is_syncing)
       => /\ result'.op = "sync_latest"
          /\ result'.status = "rejected"
          /\ ~result'.rpc
          /\ blocks' = blocks /\ txs' = txs
          /\ inputs' = inputs /\ outputs' = outputs
          /\ sync_stats' = sync_stats
          /\ is_syncing' = is_syncing]_vars

C10_Witness ==
    /\ result.op = "sync_latest"
    /\ result.status = "rejected"
    /\ is_syncing

C12_CountsDescribeMirror ==
    (/\ result.op = "sync_latest"
     /\ result.status = "ok"
     /\ result.errors = 0)
    => /\ result.synced_blocks = result.end_height - result.start_height + 1
       /\ \A h \in result.start_height..result.end_height :
            get_block_by_height(blocks, h) # {}
       /\ get_latest_block_height(blocks) = result.end_height
       /\ result.synced_transactions =
            Cardinality({t \in txs :
                           \E h \in result.start_height..result.end_height :
                              Holds(h, t.txid)})

\* C13. If handle_reorg fails at any point (lookup of the new tip, a lookup
\* of the ancestor walk, a deletion) it raises SyncServiceError and the
\* blocks and transactions of the mirror are exactly as before the call: no
\* part of the orphaned blocks or of their transactions stays deleted.
C13_FailedReorgChangesNothing ==
    [][(last'.op = "handle_reorg" /\ ~last'.ok)
       => (blocks' = blocks /\ txs' = txs)]_vars

\* A deletion that failed after an earlier block had been deleted.
C13_Witness ==
    /\ last.op = "handle_reorg"
    /\ ~last.ok
    /\ last.partial
    /\ Cardinality(blocks) = 2

StaleBlock ==
    \E b \in blocks : b.height > NetworkHeight \/ b.hash # HashAt(b.height)

\* C14. If the remote chain reorganizes below the mirror height and then
\* stops changing, the running periodic sync loop eventually brings the mirror
\* to a state in which the hash of every mirrored block is the hash the
\* remote node reports for its height: a mirror that holds a block the remote
\* chain no longer has leads to a mirror that holds none.
C14_ReorgRepaired == StaleBlock ~> ~StaleBlock

\* The positions of the call attempts among the events of a call, and of
\* the passes of the loop that ended in a transport-level failure (of the
\* call, or of the _connect of a client that had no connection).
CallEvents(events) == {i \in 1..Len(events) : events[i] \in AttemptOutcomes}
FailureEvents(events) ==
    {i \in 1..Len(events) : events[i] \in {"transport", "connect:failed"}}

\* C16. For every RPC call, a transport-level failure of an attempt triggers
\* a reconnect and a retry; the client makes at most 3 call attempts, an
\* attempt that succeeds after earlier transport failures returns its
\* result, and when all attempts fail the call ends with a BitcoinRPCError:
\* a call never ends without a result or a BitcoinRPCError, also when the
\* reconnect itself fails.
C16_RetryCeiling ==
    last.op = "execute_rpc_call"
    => LET e == last.events
           calls == CallEvents(e)
           transport == {i \in calls : e[i] = "transport"}
           failures == FailureEvents(e)
       IN /\ Cardinality(calls) <= 3
          /\ Cardinality(failures) <= 3
          /\ last.outcome \in {"result", "BitcoinRPCError"}
          /\ \A i \in transport :
               \/ Cardinality({j \in failures : j <= i}) = 3
               \/ /\ i < Len(e)
                  /\ e[i + 1] \in {"reconnect:ok", "reconnect:failed"}
                  /\ e[i + 1] = "reconnect:ok"
                     => (i + 1 < Len(e) /\ e[i + 2] \in AttemptOutcomes)
          /\ (\E i \in calls : e[i] = "result")
               => (e[Len(e)] = "result" /\ last.outcome = "result")
          /\ (\A i \in calls : e[i] # "result")
               => last.outcome = "BitcoinRPCError"

\* Two transport failures, then the second reconnect fails.
C16_Witness ==
    /\ last.op = "execute_rpc_call"
    /\ last.events = <<"transport", "reconnect:ok", "transport",
                       "reconnect:failed">>
    /\ last.outcome = "BitcoinRPCError"

\* C17. A protocol-level error (the node answered and rejected the request)
\* on any attempt of an RPC call, also an attempt made after transport
\* failures, is surfaced at once as a BitcoinRPCError: no further attempt
\* and no reconnect follow it.
C17_ProtocolErrorNotRetried ==
    last.op = "execute_rpc_call"
    => \A i \in 1..Len(last.events) :
          last.events[i] = "protocol"
          => (i = Len(last.events) /\ last.outcome = "BitcoinRPCError")

\* A protocol-level error on the third attempt.
C17_Witness ==
    /\ last.op = "execute_rpc_call"
    /\ last.events = <<"transport", "reconnect:ok", "transport",
                       "reconnect:ok", "protocol">>
    /\ last.outcome = "BitcoinRPCError"

\* C18. Every stored input and every stored output belongs to a stored
\* transaction: when a transaction is deleted, also by handle_reorg, its
\* inputs and outputs are deleted with it, so that no input of a deleted
\* transaction keeps marking an output as spent.
C18_InputsOutputsOwned ==
    \A r \in inputs \cup outputs : \E t \in txs : t.id = r.transaction_id

\* C19. Every transaction row created by sync_mempool has a null block hash
\* and a null block height, also when the payload fetched from the remote
\* node carries blockhash/blockheight; the transactions whose txid is in the
\* mirror already are neither duplicated nor modified by sync_mempool.
C19_MempoolRowsUnlinked ==
    [][(pc = "mempool_listed" /\ last'.op = "sync_mempool")
       => /\ \A r \in txs' \ txs :
               r.block_hash = None /\ r.block_height = None
          /\ txs \subseteq txs'
          /\ \A a \in txs', b \in txs' : a.txid = b.txid => a = b]_vars

\* sync_mempool created a row from a payload that carried blockhash.
C19_Witness ==
    /\ last.op = "sync_mempool"
    /\ last.changed
    /\ last.link # None
    /\ \E r \in txs : r.txid \in viaMempool /\ r.block_hash = None

\* C20. A block height or transaction whose fetch or persistence failed in
\* one sync_latest_blocks run is attempted again by the next
\* sync_latest_blocks invocation: a periodic run that reached the node
\* attempts every height at which the run before it failed and which the
\* mirror does not hold.
C20_FailedHeightRetried ==
    (/\ result.op = "sync_latest"
     /\ result.caller = "periodic"
     /\ result.status \in {"ok", "noop"})
    => \A h \in result.prev_failed :
          h \in result.mirror_before \/ h \in result.attempted

\* C21. Each block and each transaction is committed on its own, and a sync
\* run interrupted after any step leaves a consistent prefix of the run in
\* the mirror: while a run in which nothing has failed is between two
\* heights, there is a k such that the blocks of start..k are all stored,
\* every block below k has all its transactions, and no block and no
\* transaction of a height above k is stored.
C21_ConsistentPrefix ==
    (pc = "sync_loop" /\ run.errors = 0)
    => \E k \in (run.start_height - 1)..run.end_height :
          /\ \A h \in run.start_height..k :
                get_block_by_height(blocks, h) # {}
          /\ \A h \in run.start_height..(k - 1) :
                \A i \in 1..Len(TxidsAt(h)) :
                   get_transaction_by_txid(txs, TxidsAt(h)[i]) # {}
          /\ \A h \in (k + 1)..run.end_height :
                /\ get_block_by_height(blocks, h) = {}
                /\ ~\E t \in txs : Holds(h, t.txid)

\* C22. The statistics a client obtains after a sync run, by the stats of
\* get_sync_status (GET /sync/status) or by GET /sync/stats, report the
\* number of per-unit errors observed in that run.
C22_StatsReportLastRun ==
    (/\ last.op \in {"get_sync_status", "get_sync_stats"}
     /\ last.ok
     /\ result.op = "sync_latest"
     /\ result.status = "ok")
    => last.stats_errors = result.errors

\* C23. get_address_balance(address), when it returns, gives total_received
\* = the sum of the values of all stored outputs with that address,
\* total_spent = the sum of the values of those of them that at least one
\* stored input references by the owning transaction's txid and the output
\* index (an output referenced more than once counts once), balance =
\* total_received - total_spent, and tx_count = the number of distinct
\* transactions that own those outputs.
C23_BalanceAsStated ==
    (last.op = "get_address_balance" /\ last.ok)
    => LET mine == {o \in outputs : o.address = last.key}
           owner(o) == CHOOSE r \in txs : r.id = o.transaction_id
           spent == {o \in mine :
                       Cardinality({i \in inputs :
                                      /\ i.prev_txid = owner(o).txid
                                      /\ i.vout = o.n}) >= 1}
       IN /\ last.total_received = SumValues(mine)
          /\ last.total_spent = SumValues(spent)
          /\ last.balance = last.total_received - last.total_spent
          /\ last.tx_count = Cardinality({owner(o).id : o \in mine})

\* An output of the address with a positive value is referenced by two
\* inputs, another output of the address by none, and the balance returned.
C23_Witness ==
    /\ last.op = "get_address_balance"
    /\ last.ok
    /\ \E o \in outputs :
         /\ o.address = last.key
         /\ o.value > 0
         /\ \E r \in txs :
              /\ r.id = o.transaction_id
              /\ Cardinality({i \in inputs : i.prev_txid = r.txid
                                             /\ i.vout = o.n}) = 2
    /\ \E o \in outputs :
         /\ o.address = last.key
         /\ o.value > 0
         /\ \E r \in txs :
              /\ r.id = o.transaction_id
              /\ ~\E i \in inputs : i.prev_txid = r.txid /\ i.vout = o.n

\* C24. For every store whose output values are not negative (unconfirmed
\* transactions, outputs referenced by two inputs and the rows a reorg
\* rollback leaves included), every result get_address_balance returns has
\* balance >= 0 and total_spent <= total_received.
C24_BalanceNotNegative ==
    (last.op = "get_address_balance" /\ last.ok)
    => /\ last.balance >= 0
       /\ last.total_spent <= last.total_received

\* A balance returned for an address with an output of an unconfirmed
\* transaction that two inputs reference, in a store that also holds an
\* output whose transaction a rollback deleted.
C24_Witness ==
    /\ last.op = "get_address_balance"
    /\ last.ok
    /\ last.total_spent > 0
    /\ \E o \in outputs :
         /\ o.address = last.key
         /\ \E r \in txs :
              /\ r.id = o.transaction_id
              /\ r.block_hash = None
              /\ Cardinality({i \in inputs : i.prev_txid = r.txid
                                             /\ i.vout = o.n}) = 2
    /\ \E o \in outputs : OwnerOf(txs, o) = {}

\* The defects of a store, as the integrity report names them.
HeightGap(st) ==
    \E b, c \in st.blocks :
       /\ b.height + 1 < c.height
       /\ \E h \in (b.height + 1)..(c.height - 1) :
            ~\E d \in st.blocks : d.height = h
PreviousHashMismatch(st, b) ==
    \E c \in st.blocks :
       c.height + 1 = b.height /\ b.previous_block_hash # c.hash
CountMismatch(st, b) ==
    b.n_tx # Cardinality({t \in st.txs : t.block_hash = b.hash})
UnknownBlock(st, t) ==
    t.block_hash # None /\ ~\E b \in st.blocks : b.hash = t.block_hash
IssueKinds(issues) == {issues[i].kind : i \in 1..Len(issues)}
IssuesAt(issues, kind) ==
    {issues[i].at : i \in {j \in 1..Len(issues) : issues[j].kind = kind}}

\* C25. validate_database_integrity returns is_valid = true exactly when the
\* stored blocks have no height gap, no block's previous_block_hash differs
\* from the hash of the stored block one below it, no block's recorded
\* transaction count differs from the number of transactions linked to it,
\* and no transaction's block hash names a block that is not stored; and
\* every such defect has its issue in the report.
C25_ValidExactlyWhenNoDefect ==
    last.op = "validate_database_integrity"
    => LET st == Store IN
       /\ last.is_valid <=>
            /\ ~HeightGap(st)
            /\ \A b \in blocks : ~PreviousHashMismatch(st, b)
            /\ \A b \in blocks : ~CountMismatch(st, b)
            /\ \A t \in txs : ~UnknownBlock(st, t)
       /\ HeightGap(st) => "height" \in IssueKinds(last.issues)
       /\ \A b \in blocks :
            /\ PreviousHashMismatch(st, b)
               => b.height \in IssuesAt(last.issues, "previous_block_hash")
            /\ CountMismatch(st, b)
               => b.height \in IssuesAt(last.issues, "n_tx")
       /\ (\E t \in txs : UnknownBlock(st, t))
            => "orphaned" \in IssueKinds(last.issues)

\* The validation has returned is_valid = true for a store of two linked
\* blocks with their transactions.
C25_Witness ==
    /\ last.op = "validate_database_integrity"
    /\ last.is_valid
    /\ Cardinality(blocks) = 2
    /\ Cardinality(txs) = 2

C27_RunOrder ==
    [][(pc = "sync_loop" /\ run' # run)
       => LET h == run.height
              new == {r \in txs' : r \notin txs}
              row(t) == CHOOSE r \in new : r.txid = t
          IN /\ pc' = "sync_loop" => run'.height = h + 1
             /\ new # {} => get_block_by_height(blocks', h) # {}
             /\ \A i, j \in 1..Len(TxidsAt(h)) :
                  (/\ i < j
                   /\ \E r \in new : r.txid = TxidsAt(h)[i]
                   /\ \E r \in new : r.txid = TxidsAt(h)[j])
                  => row(TxidsAt(h)[i]).id < row(TxidsAt(h)[j]).id]_vars

\* C28. After the block at height h + 1 is ingested, the stored block at
\* height h that it builds on has next_block_hash equal to the hash of the
\* block at h + 1.
C28_NextHashFilled ==
    (last.op = "save_block" /\ last.ok)
    => \A new \in get_block_by_hash(blocks, last.key) :
          \A b \in blocks :
             (b.height + 1 = new.height /\ b.hash = new.previous_block_hash)
             => b.next_block_hash = new.hash

\* C29. stop_background_tasks clears the keep-running flag, waits the grace
\* period and only then cancels the tasks still outstanding; a cancellation
\* never takes effect between a loop's opening of its session and the
\* closing of it; and when stop has returned no periodic loop is running,
\* no session is open and the task handle is cleared.
C29_StopOutsideSession ==
    /\ [](/\ ~bg.cancelled_in_session
          /\ \A l \in Loops : bg.cancel_requested[l] => bg.stop = "awaiting"
          /\ bg.stop = "returned"
             => /\ \A l \in Loops : TaskOver(l) /\ bg.session[l] # "open"
                /\ bg.sync_task = "None")
    /\ [][(bg.stop = "none" /\ bg'.stop = "grace") => ~bg'.running]_vars

\* stop has returned after it cancelled a loop that had run an iteration
\* and another loop that had ended by itself.
C29_Witness ==
    /\ bg.stop = "returned"
    /\ \E l \in Loops : bg.task[l] = "cancelled" /\ bg.iterations[l] > 0
                        /\ bg.session[l] = "closed"
    /\ \E l \in Loops : bg.task[l] = "finished"

\* C30. In each periodic loop (block sync, mempool sync, integrity
\* validation) the session opened for an iteration is closed before the
\* loop sleeps, whether the body returned or raised: a loop that is asleep
\* after an iteration in which a session was opened holds that session
\* closed.
C30_SessionClosedBeforeSleep ==
    \A l \in Loops :
       (bg.task[l] = "sleeping" /\ bg.outcome[l] # "no_session")
       => bg.session[l] = "closed"

\* The three loops are asleep, one after a body that returned, one after an
\* exception inside the sync call and one after an exception outside it.
C30_Witness ==
    /\ \A l \in Loops : bg.task[l] = "sleeping"
    /\ {bg.outcome[l] : l \in Loops} = {"ok", "inner_error", "outer_error"}

\* C31. For every total >= 0 and every limit of the request, the block list
\* and the block-transactions endpoints answer with pages = ceil(total /
\* limit), the least number of pages of limit rows that hold total rows (0
\* when total = 0), and echo the page and the limit of the request.
C31_PagesAreCeiling ==
    last.op \in {"get_blocks", "get_block_transactions"}
    => /\ last.ok
       /\ last.pages \in 0..last.total
       /\ last.pages * last.req_limit >= last.total
       /\ (last.pages - 1) * last.req_limit < last.total
       /\ last.page = last.req_page
       /\ last.limit = last.req_limit

\* C32. If persisting a new transaction fails after the row or some of its
\* inputs and outputs were added (at the flush, while inputs or outputs are
\* added, at the commit), save_transaction_to_db raises
\* TransactionServiceError and the store is as before the call, with
\* nothing of that transaction in it; when the call succeeds the row is
\* stored with exactly one input per vin entry and one output per vout
\* entry of the payload.
C32_SaveAllOrNothing ==
    /\ [][(/\ last'.op = "save_transaction_to_db"
           /\ pc = "idle"
           /\ last'.fault \in PersistFaults)
          => /\ ~last'.ok
             /\ txs' = txs /\ inputs' = inputs /\ outputs' = outputs
             /\ (~last'.rep => get_transaction_by_txid(txs', last'.key) = {})
         ]_vars
    /\ [](last.op = "save_transaction_to_db" /\ last.ok
          => \E r \in txs :
               /\ r.txid = last.key
               /\ Cardinality({i \in inputs : i.transaction_id = r.id})
                    = last.n_vin
               /\ Cardinality({o \in outputs : o.transaction_id = r.id})
                    = last.n_vout)

\* The call failed while the outputs of a transaction with two inputs were
\* added, in a store that holds another transaction.
C32_Witness ==
    /\ last.op = "save_transaction_to_db"
    /\ ~last.ok
    /\ last.fault = "vout"
    /\ last.n_vin = 2
    /\ last.n_vout = 2
    /\ txs # {}
    /\ get_transaction_by_txid(txs, last.key) = {}

\* C33. The fee stored with a new transaction: the absolute value of the
\* payload's fee when it has one; else 0 when the first input is a coinbase;
\* else None, also when the payload has no input. The computation of the fee
\* makes no call fail: without a fault of the session the call succeeds.
C33_FeeDecision ==
    /\ [][(last'.op = "save_transaction_to_db" /\ pc = "idle" /\ ~last'.rep
           /\ last'.ok)
          => \E r \in txs' :
               LET p == SavePayload(last'.key)
               IN /\ r.txid = last'.key
                  /\ (p.has_fee =>
                        /\ r.fee >= 0
                        /\ r.fee \in {p.fee, 0 - p.fee})
                  /\ (~p.has_fee /\ Len(p.vin) > 0 /\ p.vin[1].coinbase
                        => r.fee = 0)
                  /\ (~p.has_fee /\ (Len(p.vin) = 0 \/ ~p.vin[1].coinbase)
                        => r.fee = None)
         ]_vars
    /\ [](last.op = "save_transaction_to_db" /\ last.fault = "none"
          => last.ok)

\* Transactions of every kind are stored: a negative fee stored as its
\* absolute value, a coinbase without fee, a spend without fee, and a
\* payload whose vin is empty.
C33_Witness ==
    /\ last.op = "save_transaction_to_db"
    /\ last.ok
    /\ last.key = 3
    /\ \E r \in txs : r.txid = 3 /\ r.fee = None
    /\ \E r \in txs : r.txid = 2 /\ r.fee = 2
    /\ \E r \in txs : r.txid = 4 /\ r.fee = 0
    /\ \E r \in txs : r.txid = 1 /\ r.fee = None

\* C34. invalidate_cache(prefix) with a non-empty prefix removes exactly the
\* entries stored under keys generated from that prefix and keeps every
\* other entry; with the empty prefix it removes every entry.
C34_InvalidateByPrefix ==
    [][(last'.op = "invalidate_cache" /\ pc = "idle")
       => cache' = IF last'.prefix = <<>>
                   THEN {}
                   ELSE {e \in cache :
                           e.key \notin KeysOfPrefix(cache, last'.prefix)}
      ]_vars

\* C35. get returns the value of the entry at every time up to and including
\* its expiry instant and leaves the cache as it is; later it returns None
\* and removes the entry; without an entry it returns None. set leaves
\* exactly one entry for the key, with the new value and the expiry
\* now + ttl, and touches no other key; after delete the key has no entry,
\* and the other entries are kept; after a clear the cache is empty.
C35_TtlCache ==
    /\ [][(last'.op = "cache.get" /\ pc = "idle")
          => LET held == EntryOf(cache, last'.cache_key)
             IN /\ held = {} => last'.value = None /\ cache' = cache
                /\ \A e \in held :
                     /\ now <= e.expires_at
                          => last'.value = e.value /\ cache' = cache
                     /\ now > e.expires_at
                          => last'.value = None /\ cache' = cache \ {e}
         ]_vars
    /\ [][(last'.op = "cache.set" /\ pc = "idle")
          => /\ EntryOf(cache', last'.cache_key)
                  = {[key |-> last'.cache_key,
                      value |-> last'.value,
                      expires_at |-> now + (IF last'.ttl = None
                                            THEN default_ttl
                                            ELSE last'.ttl)]}
             /\ cache' \ EntryOf(cache', last'.cache_key)
                  = cache \ EntryOf(cache, last'.cache_key)
         ]_vars
    /\ [][(last'.op = "cache.delete" /\ pc = "idle")
          => /\ EntryOf(cache', last'.cache_key) = {}
             /\ cache' = cache \ EntryOf(cache, last'.cache_key)
         ]_vars
    /\ [][(last'.op = "invalidate_cache" /\ pc = "idle"
           /\ last'.prefix = <<>>)
          => cache' = {}
         ]_vars
    /\ [](\A e \in cache : Cardinality(EntryOf(cache, e.key)) = 1)

\* get has returned the value of an entry at its expiry instant, after the
\* clock moved.
C35_Witness ==
    /\ last.op = "cache.get"
    /\ last.value # None
    /\ now > 0
    /\ \E e \in cache : e.key = last.cache_key /\ e.expires_at = now

\* C36. A sync_latest_blocks run that starts on the empty mirror, goes
\* through its loop in one pass and reports zero errors, against a remote
\* chain that does not change, leaves a mirror on which
\* validate_database_integrity reports is_valid = true and no issue (the
\* first of the runs of the claim).
C36_CleanRunsValidate ==
    [][(/\ pc = "sync_loop"
        /\ pc' # "sync_loop"
        /\ run.height = run.start_height
        /\ blocks = {} /\ txs = {} /\ inputs = {} /\ outputs = {}
        /\ result'.op = "sync_latest"
        /\ result'.status = "ok"
        /\ result'.errors = 0)
       => LET r == validate_database_integrity(
                     [blocks |-> blocks', txs |-> txs',
                      inputs |-> inputs', outputs |-> outputs'])
          IN r.is_valid /\ r.issues = <<>>
      ]_vars

\* C37. When handle_reorg is called with a tip the node knows and the mirror
\* matches the node at no height from 1 up to the height of the tip, the
\* call succeeds, reports the common ancestor height 0, and no block with a
\* height above 0 is left in the mirror.
C37_WalkToZero ==
    [][(last'.op = "handle_reorg" /\ CanCall
        /\ last'.tip_height # None /\ last'.expect = 0)
       => /\ last'.ok
          /\ last'.common = 0
          /\ \A b \in blocks' : b.height <= 0
      ]_vars

\* C38. sync_latest_blocks and full_sync fetch no height below 1: the for
\* loop starts at 1 or above, every height a run attempted is 1 or above,
\* and over a mirror that is empty or holds only the block at height 0 the
\* first height is 1. A block at height 0 enters the mirror only in a call
\* of get_or_fetch_block.
C38_RunsSkipGenesis ==
    /\ [](pc = "sync_loop" => run.start_height >= 1 /\ run.height >= 1)
    /\ [](result.op = "sync_latest"
            => \A h \in result.attempted : h >= 1)
    /\ [](result.op = "sync_latest" /\ result.status = "ok"
            /\ result.mirror_before \subseteq {0}
            => result.start_height = 1)
    /\ [][(\E b \in blocks' : b.height = 0 /\ b \notin blocks)
          => last'.op \in {"get_or_fetch_block(height)",
                           "get_or_fetch_block(hash)"}
         ]_vars

\* A run has ended that found only the block at height 0 in the mirror and
\* attempted height 1, and the block at height 0 is still the only one.
C38_Witness ==
    /\ result.op = "sync_latest"
    /\ result.status = "ok"
    /\ result.mirror_before = {0}
    /\ result.attempted = {1}
    /\ {b.height : b \in blocks} = {0}

\* C39. Whenever create_or_update_address returns, the row of the address
\* holds the balance and the tx_count get_address_balance returns on the same
\* store; it returns on every store on which get_address_balance returns;
\* and in every row whose first_seen_block and last_seen_block are both
\* set, the first is not above the last.
C39_AddressRowAgrees ==
    /\ [](last.op = "create_or_update_address"
            => LET b == get_address_balance(Store, last.key)
               IN /\ last.ok = b.ok
                  /\ last.ok =>
                       \E a \in addresses :
                          /\ a.address = last.key
                          /\ a.balance = b.balance
                          /\ a.tx_count = b.tx_count)
    /\ [](\A a \in addresses :
            a.first_seen_block # None /\ a.last_seen_block # None
              => a.first_seen_block <= a.last_seen_block)
    /\ [](\A a, c \in addresses : a.address = c.address => a = c)

\* The row of an address with a spent output was updated with a height
\* below the one it was created with, and its balance is below what it
\* received.
C39_Witness ==
    /\ last.op = "create_or_update_address"
    /\ last.ok
    /\ last.rep
    /\ \E a \in addresses :
         /\ a.address = last.key
         /\ a.first_seen_block = 1
         /\ a.last_seen_block = 2
         /\ last.tip_height = 1
         /\ a.tx_count = 2
         /\ a.balance > 0
         /\ a.balance < get_address_balance(Store, last.key).total_received

\* C40. A start while the tasks are started creates no loop and changes
\* neither the flag nor the handle; a stop while nothing is started changes
\* none of them either; a start that creates tasks finds every task of the
\* set before it over and creates the three loops; and whenever stop has
\* returned the keep-running flag is false.
C40_StartStopIdempotent ==
    /\ [][(bg'.call = "start_ignored" /\ bg.call # "start_ignored")
          => /\ bg.sync_task = "gather"
             /\ bg'.task = bg.task
             /\ bg'.sets = bg.sets
             /\ bg'.running = bg.running
             /\ bg'.sync_task = bg.sync_task
         ]_vars
    /\ [][(bg'.call = "stop_ignored" /\ bg.call # "stop_ignored")
          => /\ bg.sync_task = "None"
             /\ bg'.task = bg.task
             /\ bg'.running = bg.running
             /\ bg'.sync_task = bg.sync_task
         ]_vars
    /\ [][bg'.sets = bg.sets + 1
          => /\ \A l \in Loops : TaskOver(l)
             /\ \A l \in Loops : bg'.task[l] = "created"
         ]_vars
    /\ [](bg.stop = "returned" => ~bg.running)

====
